---- MODULE Spec2Model ----
(***************************************************************************)
(* Model of the arkadecash-cli funds ledger (src/src/storage/proofs.ts),   *)
(* the mint registry (src/src/storage/mints.ts), the daemon state gate     *)
(* (src/src/state/machine.ts, src/src/tools/executor.ts) and the Cashu     *)
(* spend operations (src/unnamed/part_002, CashuService).                  *)
(*                                                                         *)
(* The daemon is one Node.js process: a synchronous stretch of code        *)
(* between two awaits runs to completion, so each such stretch is one      *)
(* action.  The proofs table is a sequence of rows in insertion order.     *)
(***************************************************************************)
EXTENDS Integers, Sequences, FiniteSets

\* ------------------------------------------------------------------ bounds
MaxTime == 1
MaxLocks == 2
MaxBatch == 2

\* SQL NULL of the nullable columns lock_id and spent_at.
NULL == -1

\* ---------------------------------------------------------------- universes
MintIds == {"m1", "m2"}
\* getAllMintsWithBalances: the rows in GROUP BY m.id order.
MintOrder == <<"m1", "m2">>
\* The concurrent executeTool calls the daemon serves.
OpIds == {"o1", "o2"}
\* Amounts a caller or a melt quote asks for (amount + fee_reserve).
Needs == {1, 2, 3}
\* targetAmount of selectProofsForAmount, from nothing to more than all the
\* proofs of ProofInputs are worth together.
Targets == 0..6
\* Amounts the calls are made with: amountSats of send_ecash and the
\* totalNeeded of a melt quote.
Amounts == {2, 3}
Secrets == {"s1", "s2", "s3"}

\* The proofs a backend hands over (secret with its amount in sats).
ProofInputs ==
  { [secret |-> "s1", amount |-> 1],
    [secret |-> "s2", amount |-> 2],
    [secret |-> "s3", amount |-> 2] }

\* The proofs the backend of each mint hands over: s3 can reach the store
\* under either mint, s1 and s2 under m1 only.
Offers(mintId) ==
  IF mintId = "m1" THEN ProofInputs ELSE { p \in ProofInputs : p.secret = "s3" }

LockIds == 1..MaxLocks
Times == 0..MaxTime
\* The quote identifiers a mint answers createMintQuote with.
QuoteIds == {"q1"}
\* amountSats of deposit, deposit_from_arkade and distribute.
DepositAmounts == {2}

VARIABLES
  proofs,      \* table proofs: sequence of rows, insertion order
  mints,       \* table mints: mint id -> row (or unregistered)
  now,         \* Date.now()
  nextLock,    \* the next fresh lock identifier lockProofs generates
  openRes,     \* history: lock id -> the secrets named in the lockProofs call
               \* that returned it, while neither committed nor rolled back
  quotes,      \* table pending_quotes: quote id -> row (or no row)
  daemonState, \* table daemon_state: the persisted DaemonState
  ops,         \* the daemon's executeTool calls: slot -> the call in flight
  gate         \* history: what requireUnlocked did in the latest executeTool

vars == <<proofs, mints, now, nextLock, openRes, quotes, daemonState, ops, gate>>
ledgerVars == <<proofs, mints, now, nextLock, openRes, quotes>>

\* ------------------------------------------------------------ mint registry
\* A url is the sequence of its characters; the empty one stands for NULL.
NoUrl == << >>

NoMint == [reg |-> FALSE, url |-> NoUrl, trustScore |-> 0,
           successfulOps |-> 0, failedOps |-> 0]

\* KNOWN_MINTS: the url (slashes and an upper-case letter, as in
\* 'https://mint.minibits.cash/Bitcoin') and the trustScore of a known mint.
KnownMint(mintId) ==
  IF mintId = "m1"
  THEN [id |-> "m1", url |-> <<"a", "/", "A">>, trustScore |-> 85]
  ELSE [id |-> "m2", url |-> <<"b", "/", "b">>, trustScore |-> 80]

\* The UNIQUE constraint of mints.url.
UrlUniqueOk(M, url) ==
  url = NoUrl \/ \A m \in MintIds : ~(M[m].reg /\ M[m].url = url)

\* createMint returns (TRUE) or throws on id PRIMARY KEY / url UNIQUE.
createMintOk(M, mint) == ~M[mint.id].reg /\ UrlUniqueOk(M, mint.url)

\* createMint: INSERT INTO mints, counters default 0.
createMint(M, mint) ==
  [M EXCEPT ![mint.id] = [reg |-> TRUE, url |-> mint.url, trustScore |-> mint.trustScore,
                          successfulOps |-> 0, failedOps |-> 0]]

\* getMint: the row, or null when there is none.
getMint(M, mintId) == IF M[mintId].reg THEN M[mintId] ELSE NoMint

\* ----------------------------------------------------------- pending quotes
NoQuote == [status |-> "none", mintId |-> "none", type |-> "none", amountSats |-> 0,
            createdAt |-> 0]

\* The INSERT of createPendingQuote succeeds: quote_id is the PRIMARY KEY and
\* mint_id REFERENCES mints(id).
createPendingQuoteOk(Q, M, quoteId, mintId) ==
  Q[quoteId].status = "none" /\ M[mintId].reg

\* createPendingQuote: the row, status by default 'pending'.
createPendingQuote(Q, quoteId, mintId, type, amountSats, t) ==
  [Q EXCEPT ![quoteId] = [status |-> "pending", mintId |-> mintId, type |-> type,
                          amountSats |-> amountSats, createdAt |-> t]]

\* updateQuoteStatus: UPDATE pending_quotes SET status = ? WHERE quote_id = ?.
updateQuoteStatus(Q, quoteId, status) ==
  IF Q[quoteId].status = "none" THEN Q ELSE [Q EXCEPT ![quoteId].status = status]

\* ------------------------------------------------------------------- ledger
Indices(P) == DOMAIN P

\* A faulty INSERT that stores every row under the first mint.
NewRowUnderFirstMint(mintId, p, t) ==
  [mintId |-> MintOrder[1], secret |-> p.secret, amount |-> p.amount,
   createdAt |-> t, lockId |-> NULL, spentAt |-> NULL]

\* One INSERT of saveProofs: the row as stored, lock_id and spent_at NULL.
NewRow(mintId, p, t) ==
  [mintId |-> mintId, secret |-> p.secret, amount |-> p.amount,
   createdAt |-> t, lockId |-> NULL, spentAt |-> NULL]

\* mint_id REFERENCES mints(id), with PRAGMA foreign_keys = ON.
ForeignKeyOk(M, mintId) == M[mintId].reg

\* secret TEXT UNIQUE NOT NULL.
UniqueOk(P, secret) == \A i \in Indices(P) : P[i].secret # secret

\* The loop of saveProofs inside storage.transaction: insert.run per proof;
\* the first failing INSERT throws.  acc.ok = FALSE records the throw.
RECURSIVE insertLoop(_, _, _, _, _)
insertLoop(acc, M, mintId, batch, t) ==
  IF batch = << >> \/ ~acc.ok THEN acc
  ELSE LET p == Head(batch) IN
       IF ForeignKeyOk(M, mintId) /\ UniqueOk(acc.rows, p.secret)
       THEN insertLoop([ok |-> TRUE, rows |-> Append(acc.rows, NewRow(mintId, p, t))],
                       M, mintId, Tail(batch), t)
       ELSE [ok |-> FALSE, rows |-> acc.rows]

\* A faulty saveProofs whose inserts are not wrapped in a transaction: the
\* rows inserted before the throw stay.
saveProofsNoTransaction(P, M, mintId, batch, t) ==
  insertLoop([ok |-> TRUE, rows |-> P], M, mintId, batch, t).rows

\* saveProofs: the transaction commits all rows or, on a throw, none.
saveProofsOk(P, M, mintId, batch, t) ==
  insertLoop([ok |-> TRUE, rows |-> P], M, mintId, batch, t).ok

saveProofs(P, M, mintId, batch, t) ==
  LET r == insertLoop([ok |-> TRUE, rows |-> P], M, mintId, batch, t)
  IN  IF r.ok THEN r.rows ELSE P

\* A faulty getUnspentProofs without the spent_at IS NULL filter.
getUnspentProofsAndSpent(P, mintId) ==
  SelectSeq(P, LAMBDA r : r.mintId = mintId /\ r.lockId = NULL)

\* getUnspentProofs: WHERE mint_id = ? AND spent_at IS NULL AND lock_id IS NULL.
getUnspentProofs(P, mintId) ==
  SelectSeq(P, LAMBDA r : r.mintId = mintId /\ r.spentAt = NULL /\ r.lockId = NULL)

\* lockProofs, the conflict check: SELECT secret FROM proofs WHERE lock_id IS
\* NOT NULL AND spent_at IS NULL (no mint filter), then secrets.find.
lockedSet(P) ==
  { P[i].secret : i \in { j \in Indices(P) : P[j].lockId # NULL /\ P[j].spentAt = NULL } }

\* A faulty conflict check that finds no secret locked.
lockConflictNever(P, secrets) == FALSE

lockConflict(P, secrets) == secrets \cap lockedSet(P) # {}

\* A faulty UPDATE of lockProofs without the secret IN (...) condition.
lockUpdateWholeMint(P, lockId, mintId, secrets) ==
  [i \in Indices(P) |->
     IF P[i].mintId = mintId /\ P[i].spentAt = NULL
     THEN [P[i] EXCEPT !.lockId = lockId]
     ELSE P[i]]

\* A faulty UPDATE of lockProofs that stops after the first row it changes.
lockUpdateFirstRowOnly(P, lockId, mintId, secrets) ==
  [i \in Indices(P) |->
     IF /\ P[i].mintId = mintId /\ P[i].secret \in secrets /\ P[i].spentAt = NULL
        /\ \A j \in 1..(i - 1) :
             ~(P[j].mintId = mintId /\ P[j].secret \in secrets /\ P[j].spentAt = NULL)
     THEN [P[i] EXCEPT !.lockId = lockId]
     ELSE P[i]]

\* lockProofs, the UPDATE: SET lock_id = ? WHERE mint_id = ? AND secret IN
\* (...) AND spent_at IS NULL.
lockUpdate(P, lockId, mintId, secrets) ==
  [i \in Indices(P) |->
     IF P[i].mintId = mintId /\ P[i].secret \in secrets /\ P[i].spentAt = NULL
     THEN [P[i] EXCEPT !.lockId = lockId]
     ELSE P[i]]

\* A faulty unlockProofs whose UPDATE has no WHERE clause.
unlockProofsEveryLock(P, lockId) ==
  [i \in Indices(P) |-> [P[i] EXCEPT !.lockId = NULL]]

\* unlockProofs: UPDATE proofs SET lock_id = NULL WHERE lock_id = ?.
unlockProofs(P, lockId) ==
  [i \in Indices(P) |->
     IF P[i].lockId = lockId THEN [P[i] EXCEPT !.lockId = NULL] ELSE P[i]]

\* A faulty commitSpend that sets spent_at on one row only.
commitSpendFirstRowOnly(P, lockId, t) ==
  [i \in Indices(P) |->
     IF P[i].lockId = lockId /\ \A j \in 1..(i - 1) : P[j].lockId # lockId
     THEN [P[i] EXCEPT !.spentAt = t, !.lockId = NULL]
     ELSE P[i]]

\* A faulty commitSpend that releases the lock and leaves the proofs unspent.
commitSpendUnlocksOnly(P, lockId, t) ==
  [i \in Indices(P) |->
     IF P[i].lockId = lockId THEN [P[i] EXCEPT !.lockId = NULL] ELSE P[i]]

\* commitSpend: UPDATE proofs SET spent_at = now, lock_id = NULL WHERE lock_id = ?.
commitSpend(P, lockId, t) ==
  [i \in Indices(P) |->
     IF P[i].lockId = lockId
     THEN [P[i] EXCEPT !.spentAt = t, !.lockId = NULL]
     ELSE P[i]]

\* A faulty rollbackSpend that releases nothing.
rollbackSpendReleasesNothing(P, lockId) == P

\* rollbackSpend delegates to unlockProofs.
rollbackSpend(P, lockId) == unlockProofs(P, lockId)

\* A faulty markProofsSpent that sets spent_at and keeps lock_id.
markProofsSpentKeepsLock(P, secrets, t) ==
  [i \in Indices(P) |->
     IF P[i].secret \in secrets THEN [P[i] EXCEPT !.spentAt = t] ELSE P[i]]

\* markProofsSpent: UPDATE proofs SET spent_at = now, lock_id = NULL WHERE
\* secret IN (...).
markProofsSpent(P, secrets, t) ==
  [i \in Indices(P) |->
     IF P[i].secret \in secrets
     THEN [P[i] EXCEPT !.spentAt = t, !.lockId = NULL]
     ELSE P[i]]

\* getLockedProofs: SELECT * FROM proofs WHERE lock_id = ?.
getLockedProofs(P, lockId) == SelectSeq(P, LAMBDA r : r.lockId = lockId)

\* A faulty cleanupStaleLocks that resets every row older than the cutoff.
cleanupStaleLocksResetsRows(P, t, maxAgeMs) ==
  [i \in Indices(P) |->
     IF P[i].createdAt < t - maxAgeMs
     THEN [P[i] EXCEPT !.lockId = NULL, !.spentAt = NULL]
     ELSE P[i]]

\* cleanupStaleLocks: the lock ids of rows with lock_id IS NOT NULL AND
\* created_at < now - maxAge, each passed to unlockProofs.
staleLocks(P, t, maxAgeMs) ==
  { P[i].lockId : i \in { j \in Indices(P) :
                           P[j].lockId # NULL /\ P[j].createdAt < t - maxAgeMs } }

cleanupStaleLocks(P, t, maxAgeMs) ==
  [i \in Indices(P) |->
     IF P[i].lockId \in staleLocks(P, t, maxAgeMs)
     THEN [P[i] EXCEPT !.lockId = NULL]
     ELSE P[i]]

\* SUM(amount) over a sequence of rows.
RECURSIVE SumAmount(_)
SumAmount(rows) ==
  IF rows = << >> THEN 0 ELSE Head(rows).amount + SumAmount(Tail(rows))

\* A faulty calculateBalance that leaves locked proofs out of the sum.
calculateBalanceUnlockedOnly(P, mintId) ==
  SumAmount(getUnspentProofs(P, mintId))

\* calculateBalance: COALESCE(SUM(amount), 0) WHERE mint_id = ? AND spent_at IS NULL.
calculateBalance(P, mintId) ==
  SumAmount(SelectSeq(P, LAMBDA r : r.mintId = mintId /\ r.spentAt = NULL))

\* getTotalBalance: COALESCE(SUM(amount), 0) WHERE spent_at IS NULL.
getTotalBalance(P) ==
  SumAmount(SelectSeq(P, LAMBDA r : r.spentAt = NULL))

\* selectProofsForAmount: [...available].sort((a, b) => b.amount - a.amount),
\* a stable sort, so rows of equal amount keep the order of the query.
RECURSIVE InsertDesc(_, _)
InsertDesc(sorted, r) ==
  IF sorted = << >> THEN <<r>>
  ELSE IF Head(sorted).amount >= r.amount
       THEN <<Head(sorted)>> \o InsertDesc(Tail(sorted), r)
       ELSE <<r>> \o sorted

RECURSIVE SortDesc(_)
SortDesc(rows) ==
  IF rows = << >> THEN << >>
  ELSE InsertDesc(SortDesc(SubSeq(rows, 1, Len(rows) - 1)), rows[Len(rows)])

\* The loop of selectProofsForAmount: break once total >= targetAmount.
RECURSIVE takeUntil(_, _, _, _)
takeUntil(sorted, selected, total, targetAmount) ==
  IF sorted = << >> \/ total >= targetAmount THEN selected
  ELSE takeUntil(Tail(sorted), Append(selected, Head(sorted)),
                 total + Head(sorted).amount, targetAmount)

\* A faulty selectProofsForAmount without the final total < targetAmount
\* test: it returns what the loop selected.
selectProofsForAmountPartial(P, mintId, targetAmount) ==
  [found |-> TRUE,
   rows |-> takeUntil(SortDesc(getUnspentProofs(P, mintId)), << >>, 0, targetAmount)]

\* A faulty selectProofsForAmount that takes the proofs in the order of the
\* query, without sorting them.
selectProofsForAmountUnsorted(P, mintId, targetAmount) ==
  LET selected == takeUntil(getUnspentProofs(P, mintId), << >>, 0, targetAmount)
  IN  IF SumAmount(selected) < targetAmount
      THEN [found |-> FALSE, rows |-> << >>]
      ELSE [found |-> TRUE, rows |-> selected]

\* selectProofsForAmount: found = FALSE stands for the null it returns when
\* total < targetAmount, and rows for the proofs it returns otherwise.
selectProofsForAmount(P, mintId, targetAmount) ==
  LET selected == takeUntil(SortDesc(getUnspentProofs(P, mintId)), << >>, 0, targetAmount)
  IN  IF SumAmount(selected) < targetAmount
      THEN [found |-> FALSE, rows |-> << >>]
      ELSE [found |-> TRUE, rows |-> selected]

SecretsOf(rows) == { rows[i].secret : i \in DOMAIN rows }

\* ------------------------------------------------------------------- state
NoRes == [open |-> FALSE, named |-> {}, at |-> 0]

\* A reservation stays open until commitSpend, rollbackSpend or unlockProofs
\* is called with its lock id, or cleanupStaleLocks unlocks it.
closeRes(R, lockIds) ==
  [L \in LockIds |-> IF L \in lockIds THEN NoRes ELSE R[L]]

\* A slot with no executeTool call in flight.  Of a call in flight it holds
\* the position (pc), the mint that pays or sends or receives (mintId), the
\* amount asked for, the secrets of the proofs handed to the backend, the
\* lock id lockProofs returned and, of a deposit, the mint to credit
\* (target), amountSats, the quote id and the polling attempts made.
IdleSlot ==
  [tool |-> "none", pc |-> "idle", mintId |-> "none", need |-> 0, sel |-> {},
   lockId |-> NULL, token |-> "none", target |-> "none", amountSats |-> 0,
   quoteId |-> "none", attempts |-> 0]

Init ==
  /\ proofs = << >>
  /\ mints = [m \in MintIds |-> NoMint]
  /\ now = 0
  /\ nextLock = 1
  /\ openRes = [L \in LockIds |-> NoRes]
  /\ quotes = [q \in QuoteIds |-> NoQuote]
  /\ daemonState = "UNINITIALIZED"
  /\ ops = [o \in OpIds |-> IdleSlot]
  /\ gate = "none"

\* Date.now() advances.
Tick ==
  /\ now < MaxTime
  /\ now' = now + 1
  /\ UNCHANGED <<proofs, mints, nextLock, openRes, quotes, daemonState, ops, gate>>

\* ------------------------------------------------- ledger operations (API)
\* createMint(mint) for a mint id not yet in the table (id is PRIMARY KEY).
RegisterMint(mintId) ==
  /\ createMintOk(mints, KnownMint(mintId))
  /\ mints' = createMint(mints, KnownMint(mintId))
  /\ UNCHANGED <<proofs, now, nextLock, openRes>>
  /\ UNCHANGED <<quotes, daemonState, ops, gate>>

\* saveProofs(mintId, batch), returning or throwing.
SaveProofs(mintId, batch) ==
  /\ proofs' = saveProofs(proofs, mints, mintId, batch, now)
  /\ UNCHANGED <<mints, now, nextLock, openRes>>
  /\ UNCHANGED <<quotes, daemonState, ops, gate>>

\* lockProofs(mintId, secrets) returning the fresh lock id nextLock; a call
\* that finds a conflict throws and changes nothing.
lockProofsReturns(P, secrets) == ~lockConflict(P, secrets)

LockProofs(mintId, secrets) ==
  /\ nextLock <= MaxLocks
  /\ lockProofsReturns(proofs, secrets)
  /\ proofs' = lockUpdate(proofs, nextLock, mintId, secrets)
  /\ nextLock' = nextLock + 1
  /\ UNCHANGED <<mints, now, openRes>>
  /\ UNCHANGED <<quotes, daemonState, ops, gate>>

\* The same call, with the secrets it named and the time it was made kept
\* as history.
TrackedLockProofs(mintId, secrets) ==
  /\ nextLock <= MaxLocks
  /\ lockProofsReturns(proofs, secrets)
  /\ proofs' = lockUpdate(proofs, nextLock, mintId, secrets)
  /\ openRes' = [openRes EXCEPT ![nextLock] =
                   [open |-> TRUE, named |-> secrets, at |-> now]]
  /\ nextLock' = nextLock + 1
  /\ UNCHANGED <<mints, now>>
  /\ UNCHANGED <<quotes, daemonState, ops, gate>>

UnlockProofs(lockId) ==
  /\ proofs' = unlockProofs(proofs, lockId)
  /\ openRes' = closeRes(openRes, {lockId})
  /\ UNCHANGED <<mints, now, nextLock>>
  /\ UNCHANGED <<quotes, daemonState, ops, gate>>

CommitSpend(lockId) ==
  /\ proofs' = commitSpend(proofs, lockId, now)
  /\ openRes' = closeRes(openRes, {lockId})
  /\ UNCHANGED <<mints, now, nextLock>>
  /\ UNCHANGED <<quotes, daemonState, ops, gate>>

RollbackSpend(lockId) ==
  /\ proofs' = rollbackSpend(proofs, lockId)
  /\ openRes' = closeRes(openRes, {lockId})
  /\ UNCHANGED <<mints, now, nextLock>>
  /\ UNCHANGED <<quotes, daemonState, ops, gate>>

MarkProofsSpent(secrets) ==
  /\ proofs' = markProofsSpent(proofs, secrets, now)
  /\ UNCHANGED <<mints, now, nextLock, openRes>>
  /\ UNCHANGED <<quotes, daemonState, ops, gate>>

CleanupStaleLocks(maxAgeMs) ==
  /\ proofs' = cleanupStaleLocks(proofs, now, maxAgeMs)
  /\ openRes' = closeRes(openRes, staleLocks(proofs, now, maxAgeMs))
  /\ UNCHANGED <<mints, now, nextLock>>
  /\ UNCHANGED <<quotes, daemonState, ops, gate>>

Batches(mintId) == UNION { [1..n -> Offers(mintId)] : n \in 1..MaxBatch }

NextLedger ==
  \/ Tick
  \/ \E m \in MintIds : RegisterMint(m)
  \/ \E m \in MintIds : \E b \in Batches(m) : SaveProofs(m, b)
  \/ \E m \in MintIds, S \in SUBSET Secrets : LockProofs(m, S)
  \/ \E L \in LockIds : UnlockProofs(L)
  \/ \E L \in LockIds : CommitSpend(L)
  \/ \E L \in LockIds : RollbackSpend(L)
  \/ \E S \in SUBSET Secrets : MarkProofsSpent(S)
  \/ \E a \in Times : CleanupStaleLocks(a)

SpecLedger == Init /\ [][NextLedger]_vars

\* Reservations only: lockProofs calls and the calls that end a reservation.
NextLock ==
  \/ \E m \in MintIds : RegisterMint(m)
  \/ \E m \in MintIds : \E b \in Batches(m) : SaveProofs(m, b)
  \/ \E m \in MintIds, S \in SUBSET Secrets : TrackedLockProofs(m, S)
  \/ \E L \in LockIds : CommitSpend(L)
  \/ \E L \in LockIds : RollbackSpend(L)

SpecLock == Init /\ [][NextLock]_vars

\* Reservations growing old: the clock runs up to MaxStaleTime while the
\* proofs of one issuer are saved, reserved, committed and cleaned up.
MaxStaleTime == 2

StaleMint == MintOrder[1]

StaleTimes == 0..MaxStaleTime

\* Date.now() advances, in the runs of SpecStale.
Elapse ==
  /\ now < MaxStaleTime
  /\ now' = now + 1
  /\ UNCHANGED <<proofs, mints, nextLock, openRes, quotes, daemonState, ops, gate>>

NextStale ==
  \/ Elapse
  \/ RegisterMint(StaleMint)
  \/ \E b \in Batches(StaleMint) : SaveProofs(StaleMint, b)
  \/ \E S \in SUBSET Secrets : TrackedLockProofs(StaleMint, S)
  \/ \E L \in LockIds : CommitSpend(L)
  \/ \E a \in StaleTimes : CleanupStaleLocks(a)

SpecStale == Init /\ [][NextStale]_vars

\* ------------------------------------------------------------ state machine
\* A faulty requireUnlocked that throws on UNINITIALIZED only.
requireInitialized(state) == state # "UNINITIALIZED"

\* requireUnlocked: TRUE when it returns, FALSE when it throws.
requireUnlocked(state) == state # "UNINITIALIZED" /\ state # "LOCKED"

\* The StateMachine of a process: `state` is this.state, `row` the state of
\* the daemon_state row, read as UNINITIALIZED while the table is empty. A
\* method answers with the message it threw ("none" when it returned), with
\* this.state and with the row it leaves behind.
DaemonStates == {"UNINITIALIZED", "LOCKED", "UNLOCKED"}

\* constructor: this.state = getDaemonState()
StateMachine(row) == row

Threw(message, state, row) == [threw |-> message, state |-> state, row |-> row]

\* this.state = next; setDaemonState(this.state)
MovedTo(next) == [threw |-> "none", state |-> next, row |-> next]

\* A faulty init without the check of this.state.
initFromAnyState(state, row) == MovedTo("LOCKED")

\* StateMachine.init
init(state, row) ==
  IF state # "UNINITIALIZED" THEN Threw("Daemon is already initialized", state, row)
  ELSE MovedTo("LOCKED")

\* A faulty unlock without the check for UNINITIALIZED.
unlockWithoutInit(state, row) ==
  IF state = "UNLOCKED" THEN Threw("none", state, row)
  ELSE MovedTo("UNLOCKED")

\* StateMachine.unlock
unlock(state, row) ==
  IF state = "UNINITIALIZED" THEN Threw("Daemon not initialized", state, row)
  ELSE IF state = "UNLOCKED" THEN Threw("none", state, row)
  ELSE MovedTo("UNLOCKED")

\* A faulty lock that sets this.state and leaves the row alone.
lockInMemoryOnly(state, row) ==
  IF state = "UNINITIALIZED" THEN Threw("Daemon not initialized", state, row)
  ELSE [threw |-> "none", state |-> "LOCKED", row |-> row]

\* StateMachine.lock
lock(state, row) ==
  IF state = "UNINITIALIZED" THEN Threw("Daemon not initialized", state, row)
  ELSE MovedTo("LOCKED")

\* StateMachine.reset
reset(state, row) == MovedTo("UNINITIALIZED")

\* `init` (createSeed, then StateMachine.init): UNINITIALIZED -> LOCKED.
CliInit ==
  LET r == init(StateMachine(daemonState), daemonState)
  IN  /\ r.threw = "none"
      /\ daemonState' = r.row
      /\ UNCHANGED <<ledgerVars, ops, gate>>

\* KNOWN_MINTS.slice(0, 2), created when getAllMints() is empty.
addDefaultMints(M) ==
  IF \E m \in MintIds : M[m].reg THEN M
  ELSE createMint(createMint(M, KnownMint("m1")), KnownMint("m2"))

\* `unlock` (unlockSeed, then StateMachine.unlock, then the default mints).
CliUnlock ==
  LET r == unlock(StateMachine(daemonState), daemonState)
  IN  /\ r.threw = "none"
      /\ daemonState' = r.row
      /\ mints' = addDefaultMints(mints)
      /\ UNCHANGED <<proofs, now, nextLock, openRes, quotes, ops, gate>>

\* Daemon.start(password) on a LOCKED store: unlockSeed, no default mints.
DaemonStart ==
  LET r == unlock(StateMachine(daemonState), daemonState)
  IN  /\ daemonState = "LOCKED"
      /\ \A o \in OpIds : ops[o].pc = "idle"
      /\ r.threw = "none"
      /\ daemonState' = r.row
      /\ UNCHANGED <<ledgerVars, ops, gate>>

\* `lock` (lockSeed, then StateMachine.lock).
CliLock ==
  LET r == lock(StateMachine(daemonState), daemonState)
  IN  /\ r.threw = "none"
      /\ daemonState' = r.row
      /\ UNCHANGED <<ledgerVars, ops, gate>>

\* resetSeed: the seed row is deleted, then StateMachine.reset.
ResetSeed ==
  LET r == reset(StateMachine(daemonState), daemonState)
  IN  /\ r.threw = "none"
      /\ daemonState' = r.row
      /\ UNCHANGED <<ledgerVars, ops, gate>>

\* ------------------------------------------------------------- executeTool
\* The slot a new executeTool call takes: the first one with no call in flight.
OpOrder == <<"o1", "o2">>

FreeSlot(O, o) ==
  \E i \in DOMAIN OpOrder :
    /\ OpOrder[i] = o
    /\ O[o].pc = "idle"
    /\ \A j \in 1..(i - 1) : O[OpOrder[j]].pc # "idle"

\* The first statement of executeTool, requireUnlocked(): it returns, or it
\* throws and executeTool answers { success: false, error }.
Gate == gate' = IF requireUnlocked(daemonState) THEN "passed" ELSE "refused"

\* executeTool returns, { success: true } or { success: false, error }: the
\* slot is free again.
Return(O, o) == ops' = [O EXCEPT ![o] = IdleSlot]

\* The call stays in flight.
Continue(O) == ops' = O

\* A call that passed the gate and found its mint, now awaiting the backend.
Started(O, o, tool, pc, mintId, need) ==
  [O EXCEPT ![o] = [IdleSlot EXCEPT !.tool = tool, !.pc = pc, !.mintId = mintId,
                                    !.need = need]]

\* A faulty recordSuccess that also clears the failures of the mint.
recordSuccessClearsFailures(M, mintId) ==
  IF M[mintId].reg
  THEN [M EXCEPT ![mintId].successfulOps = @ + 1, ![mintId].failedOps = 0]
  ELSE M

\* recordSuccess / recordFailure: UPDATE mints SET ..._ops = ..._ops + 1.
recordSuccess(M, mintId) ==
  IF M[mintId].reg THEN [M EXCEPT ![mintId].successfulOps = @ + 1] ELSE M

recordFailure(M, mintId) ==
  IF M[mintId].reg THEN [M EXCEPT ![mintId].failedOps = @ + 1] ELSE M

\* Orchestrator.selectMintForPayment: the mints with balance > 0, sorted by
\* balance descending (stable), the first one; "none" stands for null.
selectMintForPayment(P, M) ==
  LET withBalance == SelectSeq(MintOrder, LAMBDA m : M[m].reg /\ calculateBalance(P, m) > 0)
      best == { i \in DOMAIN withBalance :
                  /\ \A j \in DOMAIN withBalance :
                       calculateBalance(P, withBalance[j]) <= calculateBalance(P, withBalance[i])
                  /\ \A j \in 1..(i - 1) :
                       calculateBalance(P, withBalance[j]) < calculateBalance(P, withBalance[i]) }
  IN  IF withBalance = << >> THEN "none"
      ELSE withBalance[CHOOSE i \in best : TRUE]

\* ------------------------------------------------------- bounds of a call
MaxChange == 1
MaxRecorded == 2

\* What meltProofs returns as change and send returns as keep.
Changes(mintId) == UNION { [1..n -> Offers(mintId)] : n \in 0..MaxChange }

\* What wallet.receive returns.
Received(mintId) == Changes(mintId) \ {<< >>}

\* recordSuccess and recordFailure calls a call in flight can still make:
\* one by payInvoice, one by mintTokens.
Owed(slot) ==
  IF slot.pc = "idle" THEN 0
  ELSE IF slot.tool = "pay" \/ slot.tool = "deposit_from_arkade" THEN 1
  ELSE IF slot.tool = "distribute"
  THEN (IF slot.pc \in {"dQuote", "pQuote", "pMelt"} THEN 2 ELSE 1)
  ELSE 0

\* recordSuccess and recordFailure calls made so far or still to come from
\* the calls in flight.
Recorded(M, O) ==
  LET count[S \in SUBSET MintIds] ==
        IF S = {} THEN 0
        ELSE LET m == CHOOSE x \in S : TRUE
             IN  M[m].successfulOps + M[m].failedOps + count[S \ {m}]
      owed[S \in SUBSET OpIds] ==
        IF S = {} THEN 0
        ELSE LET x == CHOOSE y \in S : TRUE
             IN  Owed(O[x]) + owed[S \ {x}]
  IN  count[MintIds] + owed[OpIds]

\* The synchronous stretch of payInvoice and sendEcash that reserves the
\* proofs: getBalance, selectProofsForAmount, lockProofs.  res is the error
\* thrown, or "await" when the proofs named in secrets are locked and the
\* backend call is issued.
reserveProofs(P, mintId, need) ==
  LET chosen  == selectProofsForAmount(P, mintId, need)
      secrets == SecretsOf(chosen.rows)
  IN  IF calculateBalance(P, mintId) < need
      THEN [res |-> "InsufficientBalance", secrets |-> {}]
      ELSE IF ~chosen.found
      THEN [res |-> "CouldNotSelect", secrets |-> {}]
      ELSE IF lockConflict(P, secrets)
      THEN [res |-> "LockConflict", secrets |-> {}]
      ELSE [res |-> "await", secrets |-> secrets]

Reserve(o, need, atBackend) ==
  LET m == ops[o].mintId
      r == reserveProofs(proofs, m, need)
  IN  IF r.res # "await"
      THEN /\ Return(ops, o)
           /\ UNCHANGED <<proofs, nextLock>>
      ELSE /\ nextLock <= MaxLocks
           /\ proofs' = lockUpdate(proofs, nextLock, m, r.secrets)
           /\ nextLock' = nextLock + 1
           /\ Continue([ops EXCEPT ![o].pc = atBackend, ![o].need = 0,
                                  ![o].sel = r.secrets, ![o].lockId = nextLock])

\* The try block after the backend call returned: saveProofs of the change
\* (or keep) proofs, then commitSpend; res is "ok" or the error saveProofs
\* throws into the catch block.
settle(P, M, mintId, batch, t) ==
  IF saveProofsOk(P, M, mintId, batch, t) THEN "ok" ELSE "DuplicateSecret"

\* -------------------------------------------------------------------- pay
\* executeTool('pay'): requireUnlocked, then Orchestrator.pay up to the first
\* await of CashuService.payInvoice.  res is the error returned, or "await".
pay(state, P, M, mintArg) ==
  LET target == IF mintArg # "none" THEN mintArg ELSE selectMintForPayment(P, M)
  IN  IF ~requireUnlocked(state) THEN [res |-> "NotUnlocked", mintId |-> "none"]
      ELSE IF target = "none" THEN [res |-> "NoMintWithBalance", mintId |-> "none"]
      ELSE IF ~getMint(M, target).reg THEN [res |-> "MintNotFound", mintId |-> "none"]
      ELSE [res |-> "await", mintId |-> target]

PayCall(o, mintArg) ==
  /\ FreeSlot(ops, o)
  /\ Gate
  /\ LET r == pay(daemonState, proofs, mints, mintArg)
     IN  IF r.res # "await" THEN Return(ops, o)
         ELSE /\ Recorded(mints, ops) < MaxRecorded
              /\ Continue(Started(ops, o, "pay", "pQuote", r.mintId, 0))
  /\ UNCHANGED <<ledgerVars, daemonState>>

\* loadMint or createMeltQuote throws: nothing was reserved.
PayQuoteFails(o) ==
  /\ ops[o].pc = "pQuote"
  /\ Return(ops, o)
  /\ UNCHANGED <<ledgerVars, daemonState, gate>>

\* createMeltQuote returns; totalNeeded = amount + fee_reserve.
PayQuoteReturns(o, totalNeeded) ==
  /\ ops[o].pc = "pQuote"
  /\ Reserve(o, totalNeeded, "pMelt")
  /\ UNCHANGED <<mints, now, openRes, quotes, daemonState, gate>>

\* payInvoice returned: executeTool('pay') answers; distribute goes on to
\* poll the mint quote of the target mint, attempts = 0.
AfterPay(O, o) ==
  IF O[o].tool = "distribute"
  THEN Continue([O EXCEPT ![o].pc = "mCheck", ![o].sel = {}, ![o].lockId = NULL])
  ELSE Return(O, o)

\* meltProofs returns with change: saveProofs(change), commitSpend,
\* recordSuccess; a throw of saveProofs lands in the catch block, which
\* calls rollbackSpend and recordFailure.
PayMeltReturns(o, change) ==
  /\ ops[o].pc = "pMelt"
  /\ LET m == ops[o].mintId
         L == ops[o].lockId
     IN  IF settle(proofs, mints, m, change, now) = "ok"
         THEN /\ proofs' = commitSpend(saveProofs(proofs, mints, m, change, now), L, now)
              /\ mints' = recordSuccess(mints, m)
              /\ AfterPay(ops, o)
         ELSE /\ proofs' = rollbackSpend(proofs, L)
              /\ mints' = recordFailure(mints, m)
              /\ Return(ops, o)
  /\ UNCHANGED <<now, nextLock, openRes, quotes, daemonState, gate>>

\* meltProofs throws: the catch block, rollbackSpend and recordFailure.
PayMeltFails(o) ==
  /\ ops[o].pc = "pMelt"
  /\ proofs' = rollbackSpend(proofs, ops[o].lockId)
  /\ mints' = recordFailure(mints, ops[o].mintId)
  /\ Return(ops, o)
  /\ UNCHANGED <<now, nextLock, openRes, quotes, daemonState, gate>>

\* ------------------------------------------------------------- send_ecash
\* executeTool('send_ecash'): requireUnlocked, then Orchestrator.sendEcash
\* up to the await of initializeWallet in CashuService.sendEcash.
sendEcash(state, M, mintId) ==
  IF ~requireUnlocked(state) THEN "NotUnlocked"
  ELSE IF ~getMint(M, mintId).reg THEN "MintNotFound"
  ELSE "await"

SendCall(o, mintId, amountSats) ==
  /\ FreeSlot(ops, o)
  /\ Gate
  /\ IF sendEcash(daemonState, mints, mintId) # "await" THEN Return(ops, o)
     ELSE Continue(Started(ops, o, "send_ecash", "sWallet", mintId, amountSats))
  /\ UNCHANGED <<ledgerVars, daemonState>>

SendWalletFails(o) ==
  /\ ops[o].pc = "sWallet"
  /\ Return(ops, o)
  /\ UNCHANGED <<ledgerVars, daemonState, gate>>

SendWalletReturns(o) ==
  /\ ops[o].pc = "sWallet"
  /\ Reserve(o, ops[o].need, "sSend")
  /\ UNCHANGED <<mints, now, openRes, quotes, daemonState, gate>>

\* wallet.send returns with keep: saveProofs(keep), commitSpend, then the
\* token is encoded; a throw of saveProofs lands in the catch block, which
\* calls rollbackSpend.
SendReturns(o, keep) ==
  /\ ops[o].pc = "sSend"
  /\ LET m == ops[o].mintId
         L == ops[o].lockId
     IN  IF settle(proofs, mints, m, keep, now) = "ok"
         THEN /\ proofs' = commitSpend(saveProofs(proofs, mints, m, keep, now), L, now)
              /\ Return(ops, o)
         ELSE /\ proofs' = rollbackSpend(proofs, L)
              /\ Return(ops, o)
  /\ UNCHANGED <<mints, now, nextLock, openRes, quotes, daemonState, gate>>

\* wallet.send throws: the catch block, rollbackSpend.
SendFails(o) ==
  /\ ops[o].pc = "sSend"
  /\ proofs' = rollbackSpend(proofs, ops[o].lockId)
  /\ Return(ops, o)
  /\ UNCHANGED <<mints, now, nextLock, openRes, quotes, daemonState, gate>>

\* ---------------------------------------------------------- receive_ecash
\* Tokens a caller passes: a well-formed Cashu token, a string with the
\* cashuA prefix that does not decode, a fed1 string and any other string.
Tokens == {"cashuA", "cashuA-bad", "fed1", "other"}

\* getDecodedToken(token) returns (TRUE) or throws (FALSE).
getDecodedToken(token) == token = "cashuA"

\* getMintsByType(type): SELECT * FROM mints WHERE type = ?; every mint of
\* the registry is a Cashu mint.
getMintsByType(M, type) ==
  IF type = "cashu" THEN SelectSeq(MintOrder, LAMBDA m : M[m].reg) ELSE << >>

\* Orchestrator.detectMintFromToken; "none" stands for null.
detectMintFromToken(M, token) ==
  LET found == IF token \in {"cashuA", "cashuA-bad"} THEN getMintsByType(M, "cashu")
               ELSE IF token = "fed1" THEN getMintsByType(M, "fedimint")
               ELSE << >>
  IN  IF found = << >> THEN "none" ELSE found[1]

\* executeTool('receive_ecash'): requireUnlocked, then
\* Orchestrator.receiveEcash up to the await of initializeWallet in
\* CashuService.receiveEcash.
receiveEcash(state, M, mintArg, token) ==
  LET target == IF mintArg # "none" THEN mintArg ELSE detectMintFromToken(M, token)
  IN  IF ~requireUnlocked(state) THEN [res |-> "NotUnlocked", mintId |-> "none"]
      ELSE IF target = "none" THEN [res |-> "CannotDetermineMint", mintId |-> "none"]
      ELSE IF ~getMint(M, target).reg THEN [res |-> "MintNotFound", mintId |-> "none"]
      ELSE [res |-> "await", mintId |-> target]

ReceiveCall(o, mintArg, token) ==
  /\ FreeSlot(ops, o)
  /\ Gate
  /\ LET r == receiveEcash(daemonState, mints, mintArg, token)
     IN  IF r.res # "await" THEN Return(ops, o)
         ELSE Continue([Started(ops, o, "receive_ecash", "rWallet", r.mintId, 0)
                          EXCEPT ![o].token =
                            IF getDecodedToken(token) THEN "decodes" ELSE "throws"])
  /\ UNCHANGED <<ledgerVars, daemonState>>

ReceiveWalletFails(o) ==
  /\ ops[o].pc = "rWallet"
  /\ Return(ops, o)
  /\ UNCHANGED <<ledgerVars, daemonState, gate>>

\* initializeWallet returns; getDecodedToken, then wallet.receive is awaited.
ReceiveWalletReturns(o) ==
  /\ ops[o].pc = "rWallet"
  /\ IF ops[o].token = "throws" THEN Return(ops, o)
     ELSE Continue([ops EXCEPT ![o].pc = "rReceive", ![o].token = "none"])
  /\ UNCHANGED <<ledgerVars, daemonState, gate>>

ReceiveFails(o) ==
  /\ ops[o].pc = "rReceive"
  /\ Return(ops, o)
  /\ UNCHANGED <<ledgerVars, daemonState, gate>>

\* wallet.receive returns the new proofs: saveProofs, which may throw.
ReceiveReturns(o, received) ==
  /\ ops[o].pc = "rReceive"
  /\ LET m == ops[o].mintId
     IN  IF saveProofsOk(proofs, mints, m, received, now)
         THEN /\ proofs' = saveProofs(proofs, mints, m, received, now)
              /\ Return(ops, o)
         ELSE /\ proofs' = proofs
              /\ Return(ops, o)
  /\ UNCHANGED <<mints, now, nextLock, openRes, quotes, daemonState, gate>>

\* ---------------------------------------------------------------- deposit
\* Orchestrator.selectMintForDeposit with a strategy that names no
\* targetMintId (the default { type: 'equal' }, and whatever executeDeposit
\* builds): the mints sorted by balance ascending (stable), the first one;
\* "none" stands for null.
selectMintForDeposit(P, M) ==
  LET all == SelectSeq(MintOrder, LAMBDA m : M[m].reg)
      least == { i \in DOMAIN all :
                   /\ \A j \in DOMAIN all :
                        calculateBalance(P, all[i]) <= calculateBalance(P, all[j])
                   /\ \A j \in 1..(i - 1) :
                        calculateBalance(P, all[i]) < calculateBalance(P, all[j]) }
  IN  IF all = << >> THEN "none"
      ELSE all[CHOOSE i \in least : TRUE]

\* Orchestrator.deposit up to the await of initializeWallet.
deposit(P, M, mintArg) ==
  LET target == IF mintArg # "none" THEN mintArg ELSE selectMintForDeposit(P, M)
  IN  IF target = "none" THEN [res |-> "NoMintsAvailable", mintId |-> "none"]
      ELSE IF ~getMint(M, target).reg THEN [res |-> "MintNotFound", mintId |-> "none"]
      ELSE [res |-> "await", mintId |-> target]

\* executeTool('deposit'): requireUnlocked, then Orchestrator.deposit.
executeDeposit(state, P, M, mintArg) ==
  IF ~requireUnlocked(state) THEN [res |-> "NotUnlocked", mintId |-> "none"]
  ELSE deposit(P, M, mintArg)

\* A call inside Orchestrator.deposit, awaiting the mint quote of target.
Quoting(slot, target) == [slot EXCEPT !.pc = "dQuote", !.target = target]

DepositCall(o, mintArg, amountSats) ==
  /\ FreeSlot(ops, o)
  /\ Gate
  /\ LET r == executeDeposit(daemonState, proofs, mints, mintArg)
     IN  IF r.res # "await" THEN Return(ops, o)
         ELSE Continue([ops EXCEPT ![o] =
                Quoting([IdleSlot EXCEPT !.tool = "deposit", !.amountSats = amountSats],
                        r.mintId)])
  /\ UNCHANGED <<ledgerVars, daemonState>>

\* initializeWallet or wallet.createMintQuote throws.
DepositQuoteFails(o) ==
  /\ ops[o].pc = "dQuote"
  /\ Return(ops, o)
  /\ UNCHANGED <<ledgerVars, daemonState, gate>>

\* wallet.createMintQuote returns the quote: createPendingQuote, which may
\* throw; then deposit returns, to executeTool or to depositFromArkade (which
\* awaits arkade.payInvoice) or to distribute (which awaits payInvoice of the
\* source mint).
DepositQuoteReturns(o, quoteId) ==
  /\ ops[o].pc = "dQuote"
  /\ IF ~createPendingQuoteOk(quotes, mints, quoteId, ops[o].target)
     THEN /\ quotes' = quotes
          /\ Return(ops, o)
     ELSE /\ quotes' = createPendingQuote(quotes, quoteId, ops[o].target, "mint",
                                          ops[o].amountSats, now)
          /\ IF ops[o].tool = "deposit_from_arkade"
             THEN Continue([ops EXCEPT ![o].pc = "aPay", ![o].quoteId = quoteId])
             ELSE IF ops[o].tool = "distribute"
             THEN Continue([ops EXCEPT ![o].pc = "pQuote", ![o].quoteId = quoteId])
             ELSE Return(ops, o)
  /\ UNCHANGED <<proofs, mints, now, nextLock, openRes, daemonState, gate>>

\* ---------------------------------------- the polling loop and mintTokens
MaxAttempts == 2

\* checkMintQuote throws.
CheckQuoteFails(o) ==
  /\ ops[o].pc = "mCheck"
  /\ Return(ops, o)
  /\ UNCHANGED <<ledgerVars, daemonState, gate>>

\* checkMintQuote returns.  PAID: updateQuoteStatus(quoteId, 'paid'), then
\* mintTokens awaits wallet.mintProofs.  Otherwise attempts++ after the
\* timeout; the loop ends with attempts exhausted and the operation returns
\* its success result.
\* pollQuote is what follows one answer of checkMintQuote in the loop of
\* distribute and depositFromArkade.
pollQuote(attempts, paid) ==
  IF paid THEN "mintTokens"
  ELSE IF attempts + 1 < MaxAttempts THEN "poll"
  ELSE "success"

CheckQuoteReturns(o, paid) ==
  /\ ops[o].pc = "mCheck"
  /\ LET next == pollQuote(ops[o].attempts, paid)
     IN  IF next = "mintTokens"
         THEN /\ quotes' = updateQuoteStatus(quotes, ops[o].quoteId, "paid")
              /\ Continue([ops EXCEPT ![o].pc = "mMint"])
         ELSE /\ quotes' = quotes
              /\ IF next = "poll"
                 THEN Continue([ops EXCEPT ![o].attempts = @ + 1])
                 ELSE Return(ops, o)
  /\ UNCHANGED <<proofs, mints, now, nextLock, openRes, daemonState, gate>>

\* wallet.mintProofs throws.
MintFails(o) ==
  /\ ops[o].pc = "mMint"
  /\ Return(ops, o)
  /\ UNCHANGED <<ledgerVars, daemonState, gate>>

\* wallet.mintProofs returns the new proofs: saveProofs (which may throw),
\* updateQuoteStatus(quoteId, 'completed'), recordSuccess; the loop breaks.
MintReturns(o, newProofs) ==
  /\ ops[o].pc = "mMint"
  /\ LET m == ops[o].target
     IN  IF saveProofsOk(proofs, mints, m, newProofs, now)
         THEN /\ proofs' = saveProofs(proofs, mints, m, newProofs, now)
              /\ quotes' = updateQuoteStatus(quotes, ops[o].quoteId, "completed")
              /\ mints' = recordSuccess(mints, m)
              /\ Return(ops, o)
         ELSE /\ UNCHANGED <<proofs, quotes, mints>>
              /\ Return(ops, o)
  /\ UNCHANGED <<now, nextLock, openRes, daemonState, gate>>

\* ---------------------------------------------------- deposit_from_arkade
\* executeTool('deposit_from_arkade'): requireUnlocked, then
\* Orchestrator.depositFromArkade up to the await of arkade.getBalance.
depositFromArkade(state) ==
  IF ~requireUnlocked(state) THEN "NotUnlocked" ELSE "await"

ArkadeCall(o, mintArg, amountSats) ==
  /\ FreeSlot(ops, o)
  /\ Gate
  /\ IF depositFromArkade(daemonState) # "await" THEN Return(ops, o)
     ELSE /\ Recorded(mints, ops) < MaxRecorded
          /\ Continue([ops EXCEPT ![o] =
               [IdleSlot EXCEPT !.tool = "deposit_from_arkade", !.pc = "aBalance",
                                !.target = mintArg, !.amountSats = amountSats]])
  /\ UNCHANGED <<ledgerVars, daemonState>>

\* arkade.getBalance throws.
ArkadeBalanceFails(o) ==
  /\ ops[o].pc = "aBalance"
  /\ Return(ops, o)
  /\ UNCHANGED <<ledgerVars, daemonState, gate>>

\* arkade.getBalance returns: below amountSats it throws, otherwise
\* this.deposit(amountSats, mintId) runs up to its first await.
ArkadeBalanceReturns(o, enough) ==
  /\ ops[o].pc = "aBalance"
  /\ LET r == deposit(proofs, mints, ops[o].target)
     IN  IF ~enough \/ r.res # "await" THEN Return(ops, o)
         ELSE Continue([ops EXCEPT ![o] = Quoting(@, r.mintId)])
  /\ UNCHANGED <<ledgerVars, daemonState, gate>>

\* arkade.payInvoice throws.
ArkadePayFails(o) ==
  /\ ops[o].pc = "aPay"
  /\ Return(ops, o)
  /\ UNCHANGED <<ledgerVars, daemonState, gate>>

\* arkade.payInvoice returns; the target is a Cashu mint: the polling loop
\* starts, attempts = 0.
ArkadePayReturns(o) ==
  /\ ops[o].pc = "aPay"
  /\ Continue([ops EXCEPT ![o].pc = "mCheck"])
  /\ UNCHANGED <<ledgerVars, daemonState, gate>>

\* ------------------------------------------------------------- distribute
\* executeTool('distribute'): requireUnlocked, then Orchestrator.distribute
\* up to the first await of this.deposit(amountSats, toMintId).
distribute(state, P, M, fromMintId, toMintId) ==
  IF ~requireUnlocked(state) THEN "NotUnlocked"
  ELSE IF ~getMint(M, fromMintId).reg THEN "SourceMintNotFound"
  ELSE IF ~getMint(M, toMintId).reg THEN "TargetMintNotFound"
  ELSE deposit(P, M, toMintId).res

DistributeCall(o, fromMintId, toMintId, amountSats) ==
  /\ FreeSlot(ops, o)
  /\ Gate
  /\ IF distribute(daemonState, proofs, mints, fromMintId, toMintId) # "await"
     THEN Return(ops, o)
     ELSE /\ Recorded(mints, ops) + 1 < MaxRecorded
          /\ Continue([ops EXCEPT ![o] =
               Quoting([IdleSlot EXCEPT !.tool = "distribute", !.mintId = fromMintId,
                                        !.amountSats = amountSats],
                       toMintId)])
  /\ UNCHANGED <<ledgerVars, daemonState>>

\* ------------------------------------------------------------ specification
MintArgs == MintIds \cup {"none"}

NextState ==
  \/ CliInit
  \/ CliUnlock
  \/ DaemonStart
  \/ CliLock

Pay(o) ==
  \/ \E a \in MintArgs : PayCall(o, a)
  \/ PayQuoteFails(o)
  \/ \E n \in Amounts : PayQuoteReturns(o, n)
  \/ \E c \in Changes(ops[o].mintId) : PayMeltReturns(o, c)
  \/ PayMeltFails(o)

Send(o) ==
  \/ \E m \in MintIds, n \in Amounts : SendCall(o, m, n)
  \/ SendWalletFails(o)
  \/ SendWalletReturns(o)
  \/ \E k \in Changes(ops[o].mintId) : SendReturns(o, k)
  \/ SendFails(o)

Receive(o) ==
  \/ \E a \in MintArgs, k \in Tokens : ReceiveCall(o, a, k)
  \/ ReceiveWalletFails(o)
  \/ ReceiveWalletReturns(o)
  \/ ReceiveFails(o)
  \/ \E b \in Received(ops[o].mintId) : ReceiveReturns(o, b)

Deposit(o) ==
  \/ \E a \in MintArgs, n \in DepositAmounts : DepositCall(o, a, n)
  \/ DepositQuoteFails(o)
  \/ \E q \in QuoteIds : DepositQuoteReturns(o, q)

Mint(o) ==
  \/ CheckQuoteFails(o)
  \/ \E paid \in BOOLEAN : CheckQuoteReturns(o, paid)
  \/ MintFails(o)
  \/ \E b \in Received(ops[o].target) : MintReturns(o, b)

Arkade(o) ==
  \/ \E a \in MintArgs, n \in DepositAmounts : ArkadeCall(o, a, n)
  \/ ArkadeBalanceFails(o)
  \/ \E enough \in BOOLEAN : ArkadeBalanceReturns(o, enough)
  \/ ArkadePayFails(o)
  \/ ArkadePayReturns(o)

Distribute(o) ==
  \E f \in MintIds, t \in MintIds, n \in DepositAmounts : DistributeCall(o, f, t, n)

NextPay == \E o \in OpIds : Pay(o)
NextSend == \E o \in OpIds : Send(o)
NextReceive == \E o \in OpIds : Receive(o)

\* The spend operations of an initialised, then unlocked daemon.
Next == CliInit \/ CliUnlock \/ NextPay \/ NextSend \/ NextReceive

Spec == Init /\ [][Next]_vars

\* The daemon behind its gate: the store is initialised, unlocked and locked
\* again while the daemon serves the fund operations one call at a time.
Serial == {OpOrder[1]}

NextTools ==
  \E o \in Serial :
    Pay(o) \/ Send(o) \/ Receive(o) \/ Deposit(o) \/ Mint(o) \/ Arkade(o) \/ Distribute(o)

NextGate == NextState \/ NextTools

SpecGate == Init /\ [][NextGate]_vars

\* The same daemon when the seed can also be discarded and created anew.
NextMachine == NextGate \/ ResetSeed

SpecMachine == Init /\ [][NextMachine]_vars

\* ------------------------------------------------------------------- claims

\* Secrets of the rows not yet spent.
UnspentSecrets(P) == { P[i].secret : i \in { j \in Indices(P) : P[j].spentAt = NULL } }

\* C1: while the reservation of a lockProofs call is open (neither committed
\* nor rolled back), every further lockProofs call, for whatever issuer, whose
\* secrets overlap the secrets that call named (on a proof still unspent in
\* the store) fails with LockConflict instead of returning a lock id.
C1_OverlappingLockFails ==
  \A L \in LockIds :
    openRes[L].open =>
      \A S \in SUBSET Secrets :
        (S \cap openRes[L].named \cap UnspentSecrets(proofs) # {})
          => ~lockProofsReturns(proofs, S)

\* Sum of the amounts of the rows at the indices I.
RECURSIVE AmountAt(_, _)
AmountAt(P, I) ==
  IF I = {} THEN 0
  ELSE LET i == CHOOSE j \in I : TRUE IN P[i].amount + AmountAt(P, I \ {i})

RECURSIVE BalanceOver(_, _)
BalanceOver(P, M) ==
  IF M = {} THEN 0
  ELSE LET m == CHOOSE x \in M : TRUE IN calculateBalance(P, m) + BalanceOver(P, M \ {m})

Carrying(P, lockId) == { i \in Indices(P) : P[i].lockId = lockId }
SpentRows(P) == { i \in Indices(P) : P[i].spentAt # NULL }
OwnedBy(P, m) == { i \in Indices(P) : P[i].mintId = m }

\* C3: commitSpend(L) leaves every proof that carried L spent and unlocked;
\* whatever is called afterwards, a spent proof stays a spent, unlocked row,
\* is not returned by getUnspentProofs or selectProofsForAmount and adds
\* nothing to calculateBalance.
SpentExcluded(P) ==
  \A m \in MintIds :
    /\ \A i \in SpentRows(P) : P[i].secret \notin SecretsOf(getUnspentProofs(P, m))
    /\ \A n \in Needs :
         LET sel == selectProofsForAmount(P, m, n)
         IN  sel.found => \A k \in DOMAIN sel.rows : sel.rows[k].spentAt = NULL
    /\ calculateBalance(P, m) + AmountAt(P, SpentRows(P) \cap OwnedBy(P, m))
         = AmountAt(P, OwnedBy(P, m))

C3_CommitTerminal ==
  /\ []SpentExcluded(proofs)
  /\ [][/\ (Len(proofs') = Len(proofs) /\ nextLock' = nextLock) =>
          \A L \in LockIds :
            CommitSpend(L) =>
              \A i \in Carrying(proofs, L) :
                proofs'[i].spentAt # NULL /\ proofs'[i].lockId = NULL
     /\ \A i \in SpentRows(proofs) :
          /\ i \in DOMAIN proofs'
          /\ proofs'[i].secret = proofs[i].secret
          /\ proofs'[i].spentAt # NULL
          /\ proofs'[i].lockId = NULL]_vars

C3_Witness ==
  /\ \E i \in Indices(proofs) : proofs[i].spentAt # NULL
  /\ \E j \in Indices(proofs) : proofs[j].lockId # NULL
  /\ nextLock > MaxLocks

\* C8: in every reachable state of the ledger a proof with a spent
\* timestamp has a null lock identifier.
C8_SpentImpliesUnlocked ==
  \A i \in Indices(proofs) : proofs[i].spentAt # NULL => proofs[i].lockId = NULL

C8_Witness ==
  /\ \E i \in Indices(proofs) : proofs[i].spentAt # NULL /\ proofs[i].createdAt < now
  /\ \E j \in Indices(proofs) : proofs[j].lockId # NULL /\ proofs[j].spentAt = NULL

\* C9: calculateBalance(issuer) is the sum of the amounts of the issuer's
\* unspent proofs, locked ones included; getTotalBalance is the sum of
\* calculateBalance over the registered issuers; lockProofs, unlockProofs,
\* rollbackSpend and cleanupStaleLocks change no balance and commitSpend(L)
\* lowers each balance by the amounts of the issuer's proofs carrying L (a
\* call that leaves the table as it was leaves every balance as it was).
BalanceIsUnspentSum(P, M) ==
  /\ \A m \in MintIds :
       calculateBalance(P, m) = AmountAt(P, OwnedBy(P, m) \ SpentRows(P))
  /\ getTotalBalance(P) = BalanceOver(P, { m \in MintIds : M[m].reg })

\* A step that inserts no row, allots no lock id and leaves clock and registry.
RowsKept ==
  /\ nextLock' = nextLock
  /\ now' = now
  /\ mints' = mints
  /\ Len(proofs') = Len(proofs)

C9_BalanceCountsLocked ==
  /\ []BalanceIsUnspentSum(proofs, mints)
  /\ [][proofs' # proofs =>
          /\ ( \/ /\ nextLock' = nextLock + 1
                 /\ \E m \in MintIds, S \in SUBSET Secrets : LockProofs(m, S)
              \/ /\ RowsKept
                 /\ \/ \E L \in LockIds : UnlockProofs(L) \/ RollbackSpend(L)
                    \/ \E a \in Times : CleanupStaleLocks(a) )
             => \A x \in MintIds : calculateBalance(proofs', x) = calculateBalance(proofs, x)
          /\ RowsKept =>
               \A L \in LockIds :
                 CommitSpend(L) =>
                   \A m \in MintIds :
                     calculateBalance(proofs', m)
                       = calculateBalance(proofs, m)
                         - AmountAt(proofs, Carrying(proofs, L) \cap OwnedBy(proofs, m))]_vars

C9_Witness ==
  /\ \E i \in Indices(proofs) : proofs[i].lockId # NULL
  /\ \E j \in Indices(proofs) : proofs[j].spentAt # NULL
  /\ \E m \in MintIds : calculateBalance(proofs, m) > 0 /\ calculateBalance(proofs, m) < getTotalBalance(proofs)

\* C10: when lockProofs(issuer, secrets) returns a lock id, every proof in
\* the store that secrets names carries that id and none of them is returned
\* by getUnspentProofs, whoever owns the proof and whether or not it is spent.
C10_NamedProofsCarryLock ==
  [][\A m \in MintIds, S \in SUBSET Secrets :
       LockProofs(m, S) =>
         /\ \A i \in DOMAIN proofs' :
              proofs'[i].secret \in S => proofs'[i].lockId = nextLock
         /\ \A m2 \in MintIds :
              SecretsOf(getUnspentProofs(proofs', m2)) \cap S = {}]_vars

\* ------------------------------------------------------- claims on Spec
\* The call in slot o has handed proofs to meltProofs or wallet.send and
\* awaits the answer.
AtBackend(o) == ops[o].pc \in {"pMelt", "sSend"}

RowOf(P, secret) == CHOOSE i \in Indices(P) : P[i].secret = secret

\* C2: the proofs a pay or send_ecash call has handed to the backend are
\* rows of its issuer that are unspent and carry the lock id of that call,
\* and two calls awaiting the backend at the same time hold disjoint proofs.
C2_NoProofPassedTwice ==
  \A o \in OpIds :
    AtBackend(o) =>
      /\ ops[o].sel # {}
      /\ \A s \in ops[o].sel :
           /\ \E i \in Indices(proofs) : proofs[i].secret = s
           /\ proofs[RowOf(proofs, s)].spentAt = NULL
           /\ proofs[RowOf(proofs, s)].lockId = ops[o].lockId
           /\ proofs[RowOf(proofs, s)].mintId = ops[o].mintId
      /\ \A x \in OpIds \ {o} : AtBackend(x) => ops[x].sel \cap ops[o].sel = {}

C2_Witness ==
  /\ ops["o1"].pc = "pMelt" /\ ops["o2"].pc = "sSend"
  /\ ops["o1"].mintId = ops["o2"].mintId
  /\ ops["o1"].lockId # ops["o2"].lockId
  /\ \E i \in Indices(proofs) : proofs[i].lockId = NULL /\ proofs[i].spentAt = NULL

\* C4: when meltProofs or wallet.send returns successfully, every proof the
\* call reserved is spent once the call has returned.
C4_CommitOnBackendSuccess ==
  [][\A o \in OpIds :
       (AtBackend(o) /\ ops'[o].pc = "idle") =>
         \A c \in Changes(ops[o].mintId) :
           (PayMeltReturns(o, c) \/ SendReturns(o, c)) =>
             \A s \in ops[o].sel : proofs'[RowOf(proofs', s)].spentAt # NULL]_vars

\* The step starts a pay or send_ecash call in slot o, or is the step of
\* such a call that follows its first await: the reservation of its proofs
\* or an error returned before it.
BeforeBackend(o) ==
  \/ ops[o].pc = "idle" /\ ops'[o].pc \in {"pQuote", "sWallet"}
  \/ ops[o].pc \in {"pQuote", "sWallet"} /\ ops'[o] # ops[o]

\* C5: when meltProofs or wallet.send throws after the proofs were reserved,
\* every reserved proof is again returned by getUnspentProofs once the call
\* has returned; neither that step nor any earlier step of the call changes
\* the balance of an issuer, so that the balance after the error is the
\* balance the issuer had when the call started.
C5_RollbackOnBackendFailure ==
  [][\A o \in OpIds :
       /\ (AtBackend(o) /\ ops'[o].pc = "idle") =>
            ((PayMeltFails(o) \/ SendFails(o)) =>
               /\ ops[o].sel \subseteq SecretsOf(getUnspentProofs(proofs', ops[o].mintId))
               /\ \A m \in MintIds : calculateBalance(proofs', m) = calculateBalance(proofs, m))
       /\ BeforeBackend(o) =>
            \A m \in MintIds : calculateBalance(proofs', m) = calculateBalance(proofs, m)]_vars

C5_Witness ==
  /\ \A o \in OpIds : ops[o].pc = "idle"
  /\ nextLock > 1
  /\ \E m \in MintIds :
       /\ mints[m].failedOps > 0
       /\ Len(getUnspentProofs(proofs, m)) >= 2
       /\ SpentRows(proofs) = {}

\* C6: when a pay or send_ecash call returns, with a result or with an
\* error, no proof carries the lock id lockProofs had returned to it.
C6_NoLockOutlivesCall ==
  [][\A o \in OpIds :
       (ops[o].lockId # NULL /\ ops'[o].pc = "idle") =>
         Carrying(proofs', ops[o].lockId) = {}]_vars

C6_Witness ==
  /\ \A o \in OpIds : ops[o].pc = "idle"
  /\ nextLock > MaxLocks
  /\ \E m \in MintIds : mints[m].failedOps > 0
  /\ SpentRows(proofs) # {}
  /\ \A i \in Indices(proofs) : proofs[i].lockId = NULL

\* ------------------------------------------------------- claims on SpecGate
NotUnlocked == daemonState \in {"UNINITIALIZED", "LOCKED"}

\* What each fund operation answers in the present state, over all arguments.
Answers ==
  { pay(daemonState, proofs, mints, a).res : a \in MintArgs }
    \cup { sendEcash(daemonState, mints, m) : m \in MintIds }
    \cup { receiveEcash(daemonState, mints, a, k).res : a \in MintArgs, k \in Tokens }
    \cup { executeDeposit(daemonState, proofs, mints, a).res : a \in MintArgs }
    \cup { depositFromArkade(daemonState) }
    \cup { distribute(daemonState, proofs, mints, f, t) : f \in MintIds, t \in MintIds }

\* C7: deposit, depositFromArkade, pay, distribute, sendEcash and receiveEcash
\* invoked while the daemon state is UNINITIALIZED or LOCKED fail with
\* NotUnlocked, whatever their arguments; such a call is refused at the gate,
\* awaits no backend (no call leaves its slot) and changes neither the
\* ledger nor the mint registry nor the calls in flight.
C7_GateBeforeFundOperations ==
  [][NotUnlocked =>
       /\ Answers = {"NotUnlocked"}
       /\ \A o \in OpIds : ops[o].pc = "idle" => ops'[o].pc = "idle"
       /\ gate' # gate => (gate' = "refused" /\ UNCHANGED <<ledgerVars, ops>>)]_vars

\* A call was refused while the store is LOCKED, a registered mint holds
\* funds that pay, send_ecash and distribute would otherwise spend, and no
\* call is in flight.
C7_Witness ==
  /\ daemonState = "LOCKED"
  /\ gate = "refused"
  /\ \A o \in OpIds : ops[o].pc = "idle"
  /\ \E m \in MintIds : mints[m].reg /\ calculateBalance(proofs, m) >= 2
  /\ \E q \in QuoteIds : quotes[q].status = "completed"

\* ------------------------------------------------ more claims on SpecLedger
StoredSecrets(P) == { P[i].secret : i \in Indices(P) }

\* The batch names a secret already in the store or names a secret twice.
Clash(P, batch) ==
  \/ \E k \in DOMAIN batch : batch[k].secret \in StoredSecrets(P)
  \/ \E k, l \in DOMAIN batch : k # l /\ batch[k].secret = batch[l].secret

\* C11: saveProofs(issuer, batch) throws when a secret of the batch is
\* already stored under any issuer (locked, unlocked or spent) or occurs
\* twice in the batch, and a throwing call persists no row of the batch; in
\* every reachable state no two proofs share a secret.
C11_DuplicateSecretRejected ==
  /\ \A i, j \in Indices(proofs) : proofs[i].secret = proofs[j].secret => i = j
  /\ \A m \in MintIds : \A b \in Batches(m) :
       Clash(proofs, b) =>
         /\ ~saveProofsOk(proofs, mints, m, b, now)
         /\ saveProofs(proofs, mints, m, b, now) = proofs

\* A batch for a registered issuer opens with a secret not yet stored and
\* goes on with the secret of a spent proof of another issuer, while a locked
\* proof is in the store too.
C11_Witness ==
  /\ \E j \in Indices(proofs) : proofs[j].lockId # NULL /\ proofs[j].spentAt = NULL
  /\ \E m \in MintIds : \E b \in Batches(m) :
       /\ mints[m].reg
       /\ Len(b) = 2
       /\ b[1].secret \notin StoredSecrets(proofs)
       /\ \E i \in Indices(proofs) :
            /\ proofs[i].secret = b[2].secret
            /\ proofs[i].spentAt # NULL

\* C12: whenever lockProofs(issuer, secrets) returns a lock id, rollbackSpend
\* of that id, and equally unlockProofs of it, gives back the ledger as it
\* was before the lockProofs call: every proof has the lock identifier and
\* the spent timestamp it had, and getUnspentProofs returns what it returned.
C12_LockThenRollbackIsIdentity ==
  \A m \in MintIds, S \in SUBSET Secrets :
    lockProofsReturns(proofs, S) =>
      LET locked == lockUpdate(proofs, nextLock, m, S)
      IN  /\ rollbackSpend(locked, nextLock) = proofs
          /\ unlockProofs(locked, nextLock) = proofs
          /\ \A x \in MintIds :
               getUnspentProofs(rollbackSpend(locked, nextLock), x)
                 = getUnspentProofs(proofs, x)

\* A lockProofs call that can return and lock a proof, while another
\* reservation is open and a spent proof is in the store.
C12_Witness ==
  /\ nextLock <= MaxLocks
  /\ \E j \in Indices(proofs) : proofs[j].lockId # NULL /\ proofs[j].spentAt = NULL
  /\ \E k \in Indices(proofs) : proofs[k].spentAt # NULL
  /\ \E m \in MintIds, S \in SUBSET Secrets :
       /\ lockProofsReturns(proofs, S)
       /\ lockUpdate(proofs, nextLock, m, S) # proofs

\* The rows of the issuer that are neither spent nor locked.
Available(P, m) ==
  { i \in Indices(P) : P[i].mintId = m /\ P[i].spentAt = NULL /\ P[i].lockId = NULL }

\* C13: selectProofsForAmount(issuer, N) returns null exactly when the
\* amounts of the issuer's unspent, unlocked proofs sum to less than N;
\* otherwise it returns distinct proofs of the store, each of that issuer,
\* unspent and unlocked, whose amounts sum to at least N.
C13_SelectExactlyWhenAvailable ==
  \A m \in MintIds, N \in Targets :
    LET sel == selectProofsForAmount(proofs, m, N)
    IN  /\ ~sel.found <=> AmountAt(proofs, Available(proofs, m)) < N
        /\ sel.found =>
             /\ \A k \in DOMAIN sel.rows :
                  \E i \in Available(proofs, m) : proofs[i] = sel.rows[k]
             /\ \A k, l \in DOMAIN sel.rows :
                  sel.rows[k].secret = sel.rows[l].secret => k = l
             /\ SumAmount(sel.rows) >= N

\* An issuer whose balance would cover an amount that its unlocked proofs do
\* not cover (the call returns null), and that has two unlocked proofs which
\* another amount needs both of.
C13_Witness ==
  \E m \in MintIds :
    /\ \E N \in Targets :
         /\ ~selectProofsForAmount(proofs, m, N).found
         /\ calculateBalance(proofs, m) >= N
    /\ \E N \in Targets :
         /\ selectProofsForAmount(proofs, m, N).found
         /\ Len(selectProofsForAmount(proofs, m, N).rows) = 2

\* C14: cleanupStaleLocks(maxAge), for any maxAge and in any reachable state
\* of the ledger, leaves every row with a spent timestamp exactly as it was:
\* still spent, with the same timestamp and a null lock identifier.
C14_CleanupKeepsSpent ==
  \A a \in Times :
    LET cleaned == cleanupStaleLocks(proofs, now, a)
    IN  /\ Len(cleaned) = Len(proofs)
        /\ \A i \in SpentRows(proofs) :
             /\ cleaned[i] = proofs[i]
             /\ cleaned[i].spentAt # NULL

\* A spent proof older than the cutoff sits next to a stale reservation that
\* cleanupStaleLocks does unlock.
C14_Witness ==
  /\ \E i \in SpentRows(proofs) : proofs[i].createdAt < now
  /\ \E a \in Times : cleanupStaleLocks(proofs, now, a) # proofs

\* ---------------------------------------------------- claims on SpecStale
\* C15: cleanupStaleLocks(maxAge) unlocks exactly the open reservations
\* taken longer than maxAge ago: the proofs of a reservation taken less than
\* maxAge before the call carry its lock id after the call, and no proof
\* carries the lock id of a reservation taken more than maxAge before it.
C15_CleanupUnlocksOldReservationsOnly ==
  [][\A a \in StaleTimes :
       CleanupStaleLocks(a) =>
         \A L \in LockIds :
           (openRes[L].open /\ Carrying(proofs, L) # {}) =>
             /\ now - openRes[L].at < a => Carrying(proofs', L) = Carrying(proofs, L)
             /\ now - openRes[L].at > a => Carrying(proofs', L) = {}]_vars

\* ------------------------------------------------------------ split strategy
MaxSplitAmount == 7
MaxWeight == 2

\* totalAmountSats of calculateSplit.
SplitAmounts == 0..MaxSplitAmount

\* strategy.weights: a weight per mint id, NULL where the record has no key.
Weightings == [MintIds -> {NULL} \cup (0..MaxWeight)]

NoWeights == [m \in MintIds |-> NULL]

\* The values Math.random() returns to one splitRandom call, as numerators
\* k of k / (MaxWeight + 1), all in [0, 1); a common denominator cancels
\* in (amountSats * weight) / totalWeight.
Draws == [MintIds -> 0..MaxWeight]

\* SplitStrategy: { type, targetMintId?, weights? }; "none" stands for an
\* absent targetMintId.
SplitStrategies ==
  [type : {"single"}, targetMintId : MintIds \cup {"none"}, weights : {NoWeights}]
    \cup [type : {"equal", "random"}, targetMintId : {"none"}, weights : {NoWeights}]
    \cup [type : {"weighted"}, targetMintId : {"none"}, weights : Weightings]

\* getAllMintsWithBalances: the registered mints, each with the sum of its
\* unspent proofs, in the order of the query.
getAllMintsWithBalances(P, M) ==
  LET ids == SelectSeq(MintOrder, LAMBDA m : M[m].reg)
  IN  [i \in DOMAIN ids |->
         [id |-> ids[i], balance |-> calculateBalance(P, ids[i]),
          trustScore |-> M[ids[i]].trustScore,
          successfulOps |-> M[ids[i]].successfulOps, failedOps |-> M[ids[i]].failedOps]]

\* A call of calculateSplit that throws an Error with a message, and one that
\* returns shares.
SplitThrows(message) == [threw |-> TRUE, error |-> message, shares |-> << >>]

SplitReturns(shares) == [threw |-> FALSE, error |-> "none", shares |-> shares]

\* A faulty splitSingle that takes the first mint when the target is unknown.
splitSingleFallsBackToFirst(amountSats, mintRows, targetMintId) ==
  LET found == SelectSeq(mintRows, LAMBDA r : r.id = targetMintId)
      mint == IF found # << >> THEN found ELSE SubSeq(mintRows, 1, 1)
  IN  SplitReturns(<<[mintId |-> mint[1].id, amountSats |-> amountSats]>>)

\* splitSingle: the mint named by targetMintId, or the first one; throws
\* `Mint ${targetMintId} not found` for a target that is not registered.
splitSingle(amountSats, mintRows, targetMintId) ==
  LET mint == IF targetMintId # "none"
              THEN SelectSeq(mintRows, LAMBDA r : r.id = targetMintId)
              ELSE SubSeq(mintRows, 1, 1)
  IN  IF mint = << >> THEN SplitThrows("Mint not found")
      ELSE SplitReturns(<<[mintId |-> mint[1].id, amountSats |-> amountSats]>>)

\* A faulty splitEqual that hands the whole remainder to the last mint.
splitEqualRemainderToLast(amountSats, mintRows) ==
  LET perMint == amountSats \div Len(mintRows)
      remainder == amountSats % Len(mintRows)
  IN  [i \in DOMAIN mintRows |->
         [mintId |-> mintRows[i].id,
          amountSats |-> perMint + (IF i = Len(mintRows) THEN remainder ELSE 0)]]

\* splitEqual: Math.floor(amountSats / mints.length) each, and one more for
\* the mints of index i < remainder (indices from 0).
splitEqual(amountSats, mintRows) ==
  LET perMint == amountSats \div Len(mintRows)
      remainder == amountSats % Len(mintRows)
  IN  [i \in DOMAIN mintRows |->
         [mintId |-> mintRows[i].id,
          amountSats |-> perMint + (IF i - 1 < remainder THEN 1 ELSE 0)]]

\* A faulty effectiveWeight that counts an absent weight as 0.
effectiveWeightAbsentIsZero(weights, mintId) ==
  IF weights[mintId] = NULL THEN 0 ELSE weights[mintId]

\* weights[mint.id] ?? 1
effectiveWeight(weights, mintId) ==
  IF weights[mintId] = NULL THEN 1 ELSE weights[mintId]

RECURSIVE totalWeightOf(_, _)
totalWeightOf(mintRows, weights) ==
  IF mintRows = << >> THEN 0
  ELSE effectiveWeight(weights, Head(mintRows).id) + totalWeightOf(Tail(mintRows), weights)

\* The loop of splitWeighted: Math.floor((amountSats * weight) / totalWeight)
\* for every mint but the last, `remaining` for the last.
RECURSIVE weightedLoop(_, _, _, _, _, _, _)
weightedLoop(i, results, remaining, amountSats, mintRows, weights, totalWeight) ==
  IF i > Len(mintRows) THEN results
  ELSE IF i = Len(mintRows)
       THEN weightedLoop(i + 1,
                         Append(results, [mintId |-> mintRows[i].id, amountSats |-> remaining]),
                         remaining, amountSats, mintRows, weights, totalWeight)
       ELSE LET amount == (amountSats * effectiveWeight(weights, mintRows[i].id)) \div totalWeight
            IN  weightedLoop(i + 1,
                             Append(results, [mintId |-> mintRows[i].id, amountSats |-> amount]),
                             remaining - amount, amountSats, mintRows, weights, totalWeight)

\* A faulty splitWeighted that floors the share of the last mint too.
splitWeightedFloorsLast(amountSats, mintRows, weights) ==
  LET totalWeight == totalWeightOf(mintRows, weights)
  IN  IF totalWeight = 0 THEN splitEqual(amountSats, mintRows)
      ELSE SelectSeq([i \in DOMAIN mintRows |->
                        [mintId |-> mintRows[i].id,
                         amountSats |-> (amountSats * effectiveWeight(weights, mintRows[i].id))
                                          \div totalWeight]],
                     LAMBDA r : r.amountSats > 0)

\* splitWeighted: splitEqual when the weights add up to 0, else the loop and
\* results.filter(r => r.amountSats > 0).
splitWeighted(amountSats, mintRows, weights) ==
  LET totalWeight == totalWeightOf(mintRows, weights)
  IN  IF totalWeight = 0 THEN splitEqual(amountSats, mintRows)
      ELSE SelectSeq(weightedLoop(1, << >>, amountSats, amountSats, mintRows, weights, totalWeight),
                     LAMBDA r : r.amountSats > 0)

\* splitRandom: a Math.random() weight for every mint, then splitWeighted.
splitRandom(amountSats, mintRows, draws) == splitWeighted(amountSats, mintRows, draws)

\* calculateSplit: throws without a registered mint, else the split of the
\* strategy's type.
calculateSplit(P, M, totalAmountSats, strategy, draws) ==
  LET mintRows == getAllMintsWithBalances(P, M)
  IN  IF Len(mintRows) = 0 THEN SplitThrows("No mints available")
      ELSE CASE strategy.type = "single" ->
                  splitSingle(totalAmountSats, mintRows, strategy.targetMintId)
             [] strategy.type = "equal" ->
                  SplitReturns(splitEqual(totalAmountSats, mintRows))
             [] strategy.type = "weighted" ->
                  SplitReturns(splitWeighted(totalAmountSats, mintRows, strategy.weights))
             [] strategy.type = "random" ->
                  SplitReturns(splitRandom(totalAmountSats, mintRows, draws))
             [] OTHER ->
                  SplitReturns(splitEqual(totalAmountSats, mintRows))

\* The registry and the balances calculateSplit reads.
NextSplit ==
  \/ \E m \in MintIds : RegisterMint(m)
  \/ \E m \in MintIds : \E b \in Batches(m) : SaveProofs(m, b)
  \/ \E S \in SUBSET Secrets : MarkProofsSpent(S)

SpecSplit == Init /\ [][NextSplit]_vars

\* ---------------------------------------------------------- claims on SpecSplit
\* The Math.random() values a call can see: none but for the random strategy.
DrawsOf(strategy) == IF strategy.type = "random" THEN Draws ELSE {NoWeights}

RECURSIVE SumShares(_)
SumShares(shares) ==
  IF shares = << >> THEN 0 ELSE Head(shares).amountSats + SumShares(Tail(shares))

AmountsOf(shares) == [i \in DOMAIN shares |-> shares[i].amountSats]

\* Three mints in the order of the query, whatever their balances.
ThreeMints == <<[id |-> "m1", balance |-> 0], [id |-> "m2", balance |-> 0],
                [id |-> "m3", balance |-> 0]>>

\* C20: the equal strategy gives every registered mint floor(amount / n)
\* sats and one more to each of the first (amount mod n) mints of the
\* enumeration, so two shares differ by at most 1; 7 sats over 3 mints
\* are 3, 2, 2.
C20_EqualSplitSpreadsRemainderFirst ==
  /\ \A a \in SplitAmounts :
       LET rows == getAllMintsWithBalances(proofs, mints)
           n == Len(rows)
           r == calculateSplit(proofs, mints, a,
                               [type |-> "equal", targetMintId |-> "none",
                                weights |-> NoWeights], NoWeights)
       IN  n >= 1 =>
             /\ ~r.threw
             /\ Len(r.shares) = n
             /\ \A i \in 1..n :
                  /\ r.shares[i].mintId = rows[i].id
                  /\ r.shares[i].amountSats
                       = (a \div n) + (IF i <= a % n THEN 1 ELSE 0)
             /\ \A i \in 1..n : \A j \in 1..n :
                  r.shares[i].amountSats - r.shares[j].amountSats <= 1
  /\ AmountsOf(splitEqual(7, ThreeMints)) = <<3, 2, 2>>

\* Two registered mints share 7 sats as 4 and 3, and 1 sat as 1 and 0.
C20_Witness ==
  /\ Len(getAllMintsWithBalances(proofs, mints)) = 2
  /\ AmountsOf(splitEqual(7, getAllMintsWithBalances(proofs, mints))) = <<4, 3>>
  /\ AmountsOf(splitEqual(1, getAllMintsWithBalances(proofs, mints))) = <<1, 0>>
  /\ \E i \in DOMAIN proofs : proofs[i].spentAt = NULL

\* -------------------------------------------------------- claims on SpecMachine
\* What each method of the StateMachine of a freshly started process answers.
initNow == init(StateMachine(daemonState), daemonState)

unlockNow == unlock(StateMachine(daemonState), daemonState)

lockNow == lock(StateMachine(daemonState), daemonState)

resetNow == reset(StateMachine(daemonState), daemonState)

AlreadyInitialized == "Daemon is already initialized"

NotInitialized == "Daemon not initialized"

\* C17: init() succeeds only from UNINITIALIZED and moves the state to
\* LOCKED; from LOCKED or UNLOCKED it fails with AlreadyInitialized and
\* leaves the state as it is, so a second init() fails.
C17_InitOnlyFromUninitialized ==
  /\ [](IF daemonState = "UNINITIALIZED"
        THEN initNow = MovedTo("LOCKED")
        ELSE initNow = Threw(AlreadyInitialized, daemonState, daemonState))
  /\ [][CliInit =>
          /\ daemonState = "UNINITIALIZED"
          /\ daemonState' = "LOCKED"
          /\ init(StateMachine(daemonState'), daemonState').threw = AlreadyInitialized]_vars

\* init() has moved a store to LOCKED, no unlock has registered a mint yet,
\* and a second init() fails.
C17_Witness ==
  /\ daemonState = "LOCKED"
  /\ \A m \in MintIds : ~mints[m].reg
  /\ initNow.threw = AlreadyInitialized
  /\ initNow.row = "LOCKED"

\* C18: unlock() moves LOCKED to UNLOCKED, does nothing from UNLOCKED, and
\* from UNINITIALIZED fails with NotInitialized and leaves the state
\* UNINITIALIZED; UNLOCKED is never entered from UNINITIALIZED, which only a
\* successful init() leaves.
C18_UnlockNeedsInit ==
  /\ [](CASE daemonState = "LOCKED" -> unlockNow = MovedTo("UNLOCKED")
          [] daemonState = "UNLOCKED" -> unlockNow = Threw("none", "UNLOCKED", "UNLOCKED")
          [] OTHER -> unlockNow = Threw(NotInitialized, "UNINITIALIZED", "UNINITIALIZED"))
  /\ [][daemonState' = "UNLOCKED" => daemonState \in {"LOCKED", "UNLOCKED"}]_vars
  /\ [][(daemonState = "UNINITIALIZED" /\ daemonState' # "UNINITIALIZED") => CliInit]_vars

\* unlock() has moved the store to UNLOCKED and registered the default
\* mints; one more unlock() does nothing.
C18_Witness ==
  /\ daemonState = "UNLOCKED"
  /\ \E m \in MintIds : mints[m].reg
  /\ unlockNow = Threw("none", "UNLOCKED", "UNLOCKED")

\* C19: lock() from UNLOCKED or LOCKED results in LOCKED and from
\* UNINITIALIZED fails with NotInitialized and leaves the state as it is;
\* reset() results in UNINITIALIZED from every state; every transition
\* writes the state it results in to the daemon_state row.
C19_LockResetAndPersistence ==
  /\ [](IF daemonState = "UNINITIALIZED"
        THEN lockNow = Threw(NotInitialized, "UNINITIALIZED", "UNINITIALIZED")
        ELSE lockNow.threw = "none" /\ lockNow.state = "LOCKED")
  /\ [](resetNow.threw = "none" /\ resetNow.state = "UNINITIALIZED")
  /\ [](\A r \in {initNow, unlockNow, lockNow, resetNow} :
          r.threw = "none" => r.row = r.state)
  /\ [][CliLock => daemonState' = "LOCKED"]_vars
  /\ [][ResetSeed => daemonState' = "UNINITIALIZED"]_vars

\* reset() has returned an unlocked store, its mints registered, to
\* UNINITIALIZED, where lock() fails.
C19_Witness ==
  /\ daemonState = "UNINITIALIZED"
  /\ \E m \in MintIds : mints[m].reg
  /\ lockNow.threw = NotInitialized

\* The weight the strategy gives the i-th mint of the enumeration: the one of
\* the weights map, 1 for a mint the map does not name.
WeightAt(rows, weights, i) ==
  IF weights[rows[i].id] = NULL THEN 1 ELSE weights[rows[i].id]

RECURSIVE WeightUpTo(_, _, _)
WeightUpTo(rows, weights, n) ==
  IF n = 0 THEN 0 ELSE WeightAt(rows, weights, n) + WeightUpTo(rows, weights, n - 1)

\* floor(amount * weight / totalWeight) of the i-th mint.
FlooredShare(a, rows, weights, i) ==
  (a * WeightAt(rows, weights, i)) \div WeightUpTo(rows, weights, Len(rows))

RECURSIVE FlooredUpTo(_, _, _, _)
FlooredUpTo(a, rows, weights, n) ==
  IF n = 0 THEN 0
  ELSE FlooredShare(a, rows, weights, n) + FlooredUpTo(a, rows, weights, n - 1)

\* The share the claim gives the i-th mint: the floor, and for the last
\* mint what the others leave.
ProportionalShare(a, rows, weights, i) ==
  IF i = Len(rows) THEN a - FlooredUpTo(a, rows, weights, Len(rows) - 1)
  ELSE FlooredShare(a, rows, weights, i)

\* The mints of the enumeration with a share other than zero.
Funded(a, rows, weights) ==
  SelectSeq([i \in DOMAIN rows |-> i],
            LAMBDA i : ProportionalShare(a, rows, weights, i) # 0)

WeightedStrategy(weights) ==
  [type |-> "weighted", targetMintId |-> "none", weights |-> weights]

EqualStrategy == [type |-> "equal", targetMintId |-> "none", weights |-> NoWeights]

\* Two mints A and B in the order of the query.
TwoMints == <<[id |-> "m1", balance |-> 0], [id |-> "m2", balance |-> 0]>>

\* C21: with non-negative integer weights of positive total the weighted
\* strategy gives every mint but the last floor(amount * weight /
\* totalWeight), weight 1 for a mint the weights map does not name, gives
\* the last mint of the enumeration the remainder, and drops the shares of
\* zero; weights {A: 1, B: 3} and amount 100 give A 25 and B 75; with a
\* total weight of zero the result is the one of the equal strategy.
C21_WeightedSplitIsProportional ==
  /\ \A a \in SplitAmounts : \A w \in Weightings :
       LET rows == getAllMintsWithBalances(proofs, mints)
           r == calculateSplit(proofs, mints, a, WeightedStrategy(w), NoWeights)
           funded == Funded(a, rows, w)
       IN  Len(rows) >= 1 =>
             IF WeightUpTo(rows, w, Len(rows)) = 0
             THEN r = calculateSplit(proofs, mints, a, EqualStrategy, NoWeights)
             ELSE /\ ~r.threw
                  /\ Len(r.shares) = Len(funded)
                  /\ \A k \in DOMAIN funded :
                       /\ r.shares[k].mintId = rows[funded[k]].id
                       /\ r.shares[k].amountSats
                            = ProportionalShare(a, rows, w, funded[k])
  /\ splitWeighted(100, TwoMints, [m \in MintIds |-> IF m = "m1" THEN 1 ELSE 3])
       = <<[mintId |-> "m1", amountSats |-> 25], [mintId |-> "m2", amountSats |-> 75]>>

\* Two registered mints: 7 sats by weights 1 and 2 are 2 and 5, by a weight
\* of 2 for the second mint alone (1 for the first) the same, 1 sat loses
\* the share of zero, and weights of zero fall back to the equal split.
C21_Witness ==
  /\ Len(getAllMintsWithBalances(proofs, mints)) = 2
  /\ AmountsOf(calculateSplit(proofs, mints, 7,
                 WeightedStrategy([m \in MintIds |-> IF m = "m1" THEN 1 ELSE 2]),
                 NoWeights).shares) = <<2, 5>>
  /\ AmountsOf(calculateSplit(proofs, mints, 7,
                 WeightedStrategy([m \in MintIds |-> IF m = "m1" THEN NULL ELSE 2]),
                 NoWeights).shares) = <<2, 5>>
  /\ calculateSplit(proofs, mints, 1,
                 WeightedStrategy([m \in MintIds |-> IF m = "m1" THEN 1 ELSE 2]),
                 NoWeights).shares = <<[mintId |-> "m2", amountSats |-> 1]>>
  /\ AmountsOf(calculateSplit(proofs, mints, 7,
                 WeightedStrategy([m \in MintIds |-> 0]), NoWeights).shares) = <<4, 3>>

SingleStrategy(targetMintId) ==
  [type |-> "single", targetMintId |-> targetMintId, weights |-> NoWeights]

NoSuchIssuer == "Mint not found"

\* C22: the single strategy gives the whole amount to the named target, or
\* to the first registered mint when no target is named, and fails with
\* NoSuchIssuer and without shares when the named target is not registered.
C22_SingleSplitTargetsOneMint ==
  \A a \in SplitAmounts : \A t \in MintIds \cup {"none"} :
    LET rows == getAllMintsWithBalances(proofs, mints)
        r == calculateSplit(proofs, mints, a, SingleStrategy(t), NoWeights)
    IN  /\ (t = "none" /\ Len(rows) >= 1) =>
             r.shares = <<[mintId |-> rows[1].id, amountSats |-> a]>> /\ ~r.threw
        /\ (t # "none" /\ mints[t].reg) =>
             r.shares = <<[mintId |-> t, amountSats |-> a]>> /\ ~r.threw
        /\ (t # "none" /\ ~mints[t].reg) =>
             /\ r.threw
             /\ r.shares = << >>
             /\ Len(rows) >= 1 => r.error = NoSuchIssuer

\* Only the second mint is registered: it takes the whole amount when it is
\* named and when no target is named, and naming the first mint fails.
C22_Witness ==
  /\ ~mints["m1"].reg
  /\ mints["m2"].reg
  /\ calculateSplit(proofs, mints, 7, SingleStrategy("none"), NoWeights).shares
       = <<[mintId |-> "m2", amountSats |-> 7]>>
  /\ calculateSplit(proofs, mints, 7, SingleStrategy("m1"), NoWeights).error = NoSuchIssuer

\* ------------------------------------------------------- registry and scoring
\* String.prototype.toLowerCase / SQL LOWER, character by character.
Lower(c) == IF c = "A" THEN "a" ELSE c

toLowerCase(url) == [i \in DOMAIN url |-> Lower(url[i])]

\* url.replace(/\/$/, ''): one trailing slash is removed.
stripTrailingSlash(url) ==
  IF url # << >> /\ url[Len(url)] = "/" THEN SubSeq(url, 1, Len(url) - 1) ELSE url

\* SQL REPLACE(url, '/', ''): every slash is removed.
removeSlashes(url) == SelectSeq(url, LAMBDA c : c # "/")

\* getMintByUrl: SELECT * FROM mints WHERE LOWER(REPLACE(url, '/', '')) = ?
\* with url.replace(/\/$/, '').toLowerCase() for the parameter; "none"
\* stands for null. A NULL url matches nothing.
getMintByUrl(M, url) ==
  LET normalized == toLowerCase(stripTrailingSlash(url))
      rows == SelectSeq(MintOrder,
                        LAMBDA m : /\ M[m].reg
                                   /\ M[m].url # NoUrl
                                   /\ toLowerCase(removeSlashes(M[m].url)) = normalized)
  IN  IF rows = << >> THEN "none" ELSE rows[1]

\* The urls add_mint is called with: one written as a known mint's, the
\* same with a trailing slash, and one without any slash.
Urls == {<<"a", "/", "A">>, <<"a", "/", "A", "/">>, <<"a", "A">>}

\* CashuService.ensureMint(mintUrl, name) when randomUUID() answers id:
\* the mint getMintByUrl finds, else createMint with trustScore 50, which
\* throws on a url the table holds already.
ensureMint(M, mintUrl, id) ==
  LET mint == getMintByUrl(M, mintUrl)
      created == [id |-> id, url |-> mintUrl, trustScore |-> 50]
  IN  IF mint # "none" THEN [threw |-> FALSE, mintId |-> mint, mints |-> M]
      ELSE IF createMintOk(M, created)
           THEN [threw |-> FALSE, mintId |-> id, mints |-> createMint(M, created)]
           ELSE [threw |-> TRUE, mintId |-> "none", mints |-> M]

\* randomUUID(): an id no row has.
FreshIds(M) == { m \in MintIds : ~M[m].reg }

\* updates.trustScore of updateMint.
TrustScores == {50, 80}

\* updateMint(mintId, { trustScore }): UPDATE mints SET trust_score = ?.
updateMint(M, mintId, trustScore) ==
  IF M[mintId].reg THEN [M EXCEPT ![mintId].trustScore = trustScore] ELSE M

\* deleteMint: DELETE FROM mints WHERE id = ?.
deleteMint(M, mintId) == [M EXCEPT ![mintId] = NoMint]

\* proofs.mint_id REFERENCES mints(id) ON DELETE CASCADE, foreign_keys = ON.
cascadeProofs(P, mintId) == SelectSeq(P, LAMBDA r : r.mintId # mintId)

\* pending_quotes.mint_id REFERENCES mints(id) ON DELETE CASCADE.
cascadeQuotes(Q, mintId) ==
  [q \in DOMAIN Q |-> IF Q[q].mintId = mintId THEN NoQuote ELSE Q[q]]

\* A faulty successRate without the prior of 0.5 for a mint without operations.
successRateNoPrior(mint) ==
  LET totalOps == mint.successfulOps + mint.failedOps
  IN  IF totalOps > 0 THEN [n |-> mint.successfulOps, d |-> totalOps]
      ELSE [n |-> 0, d |-> 1]

\* successRate of scoreMints, the fraction n / d.
successRate(mint) ==
  LET totalOps == mint.successfulOps + mint.failedOps
  IN  IF totalOps > 0 THEN [n |-> mint.successfulOps, d |-> totalOps]
      ELSE [n |-> 1, d |-> 2]

\* scoreMints: trustScore * 0.4 + successRate * 100 * 0.3 + (balance > 0 ?
\* 30 : 0) for every mint, the score as the fraction n / d. The trust
\* scores and counters of the model give scores a double holds exactly.
scoreMints(P, M) ==
  LET rows == getAllMintsWithBalances(P, M)
  IN  [i \in DOMAIN rows |->
         LET rate == successRate(rows[i])
         IN  [mintId |-> rows[i].id,
              score |-> [n |-> 4 * rows[i].trustScore * rate.d + 300 * rate.n
                                 + (IF rows[i].balance > 0 THEN 300 * rate.d ELSE 0),
                         d |-> 10 * rate.d],
              balance |-> rows[i].balance]]

\* b.score - a.score > 0
ScoreAbove(b, a) == b.score.n * a.score.d > a.score.n * b.score.d

\* scores.sort((a, b) => b.score - a.score), a stable sort.
RECURSIVE InsertByScore(_, _)
InsertByScore(sorted, r) ==
  IF sorted = << >> THEN <<r>>
  ELSE IF ScoreAbove(r, Head(sorted))
       THEN <<r>> \o sorted
       ELSE <<Head(sorted)>> \o InsertByScore(Tail(sorted), r)

RECURSIVE SortByScore(_)
SortByScore(rows) ==
  IF rows = << >> THEN << >>
  ELSE InsertByScore(SortByScore(SubSeq(rows, 1, Len(rows) - 1)), rows[Len(rows)])

\* selectMintForPayment(requiredSats) of the scoring module; "none" stands
\* for null.
scoreSelectMintForPayment(P, M, requiredSats) ==
  LET eligible == SelectSeq(getAllMintsWithBalances(P, M),
                            LAMBDA r : r.balance >= requiredSats)
      scores == SelectSeq(scoreMints(P, M),
                          LAMBDA x : \E i \in DOMAIN eligible : eligible[i].id = x.mintId)
      sorted == SortByScore(scores)
  IN  IF Len(eligible) = 0 THEN "none"
      ELSE IF sorted = << >> THEN "none" ELSE sorted[1].mintId

\* add_mint: ensureMint for a url, randomUUID answering id.
EnsureMint(mintUrl, id) ==
  /\ id \in FreshIds(mints)
  /\ mints' = ensureMint(mints, mintUrl, id).mints
  /\ UNCHANGED <<proofs, now, nextLock, openRes>>
  /\ UNCHANGED <<quotes, daemonState, ops, gate>>

UpdateMint(mintId, trustScore) ==
  /\ mints' = updateMint(mints, mintId, trustScore)
  /\ UNCHANGED <<proofs, now, nextLock, openRes>>
  /\ UNCHANGED <<quotes, daemonState, ops, gate>>

\* deleteMint and what the foreign keys delete with the row.
DeleteMint(mintId) ==
  /\ mints[mintId].reg
  /\ mints' = deleteMint(mints, mintId)
  /\ proofs' = cascadeProofs(proofs, mintId)
  /\ quotes' = cascadeQuotes(quotes, mintId)
  /\ UNCHANGED <<now, nextLock, openRes, daemonState, ops, gate>>

RecordSuccess(mintId) ==
  /\ Recorded(mints, ops) < MaxRecorded
  /\ mints' = recordSuccess(mints, mintId)
  /\ UNCHANGED <<proofs, now, nextLock, openRes>>
  /\ UNCHANGED <<quotes, daemonState, ops, gate>>

RecordFailure(mintId) ==
  /\ Recorded(mints, ops) < MaxRecorded
  /\ mints' = recordFailure(mints, mintId)
  /\ UNCHANGED <<proofs, now, nextLock, openRes>>
  /\ UNCHANGED <<quotes, daemonState, ops, gate>>

\* One proof at a time is enough to give the mints balances.
SingleProofs(mintId) == [1..1 -> Offers(mintId)]

NextRegistry ==
  \/ \E u \in Urls : \E id \in MintIds : EnsureMint(u, id)
  \/ \E m \in MintIds : \E t \in TrustScores : UpdateMint(m, t)
  \/ \E m \in MintIds : DeleteMint(m)
  \/ \E m \in MintIds : RecordSuccess(m)
  \/ \E m \in MintIds : RecordFailure(m)
  \/ \E m \in MintIds : \E b \in SingleProofs(m) : SaveProofs(m, b)
  \/ \E S \in SUBSET Secrets : MarkProofsSpent(S)

SpecRegistry == Init /\ [][NextRegistry]_vars

\* ------------------------------------------------------- claims on SpecRegistry
\* Ten times the score of the claim's formula for a registered mint, times
\* k: trustScore * 4 + successRate * 300 + (balance > 0 ? 300 : 0), with
\* successRate successfulOps / (successfulOps + failedOps), or 1 / 2.
OpsOf(m) == mints[m].successfulOps + mints[m].failedOps

RateDen(m) == IF OpsOf(m) > 0 THEN OpsOf(m) ELSE 2

RateNum(m) == IF OpsOf(m) > 0 THEN mints[m].successfulOps ELSE 1

TenScoreTimes(m, k) ==
  k * (4 * mints[m].trustScore * RateDen(m) + 300 * RateNum(m)
         + (IF calculateBalance(proofs, m) > 0 THEN 300 * RateDen(m) ELSE 0))

\* score(a) >= score(b), and score(a) = score(b).
ScoreAtLeast(a, b) == TenScoreTimes(a, RateDen(b)) >= TenScoreTimes(b, RateDen(a))

ScoreEqual(a, b) == TenScoreTimes(a, RateDen(b)) = TenScoreTimes(b, RateDen(a))

Eligible(requiredSats) ==
  { m \in MintIds : mints[m].reg /\ calculateBalance(proofs, m) >= requiredSats }

\* a comes before b in the order the store lists the mints.
ListedBefore(a, b) ==
  \E i \in DOMAIN MintOrder : \E j \in DOMAIN MintOrder :
    MintOrder[i] = a /\ MintOrder[j] = b /\ i < j

\* C23: selectMintForPayment(requiredSats) of the scoring module returns
\* "none" exactly when no registered mint has balance >= requiredSats;
\* otherwise it returns one mint with balance >= requiredSats whose score
\* trustScore*0.4 + successRate*100*0.3 + (balance>0 ? 30 : 0) is maximal
\* among the eligible mints, successRate being successfulOps /
\* (successfulOps + failedOps) or 0.5 without recorded operations, and a
\* tie going to the first mint in the order of the store.
C23_PaymentMintIsBestEligible ==
  \A n \in Targets :
    LET pick == scoreSelectMintForPayment(proofs, mints, n)
    IN  /\ pick = "none" <=> Eligible(n) = {}
        /\ pick # "none" =>
             /\ pick \in Eligible(n)
             /\ \A m \in Eligible(n) :
                  /\ ScoreAtLeast(pick, m)
                  /\ (ScoreEqual(pick, m) /\ m # pick) => ListedBefore(pick, m)

\* Both mints can pay 2 sats and the second one, with the better record,
\* is picked; neither can pay 6.
C23_Witness ==
  /\ Eligible(2) = MintIds
  /\ ~ScoreAtLeast("m1", "m2")
  /\ mints["m1"].failedOps > 0
  /\ scoreSelectMintForPayment(proofs, mints, 2) = "m2"
  /\ scoreSelectMintForPayment(proofs, mints, 6) = "none"

\* The network address a url names: its spelling without a trailing slash
\* and in lower case.
Address(url) == toLowerCase(stripTrailingSlash(url))

\* C24: registration is lookup-or-create: ensureMint(url) for an address
\* that is registered already returns the mint that has it, inserts no row
\* and does not fail, so two calls with one argument answer the same mint
\* id, and no two mints ever share a network address.
C24_EnsureMintIsLookupOrCreate ==
  /\ \A u \in Urls : \A m \in MintIds :
       (mints[m].reg /\ Address(mints[m].url) = Address(u)) =>
         /\ getMintByUrl(mints, u) = m
         /\ \A id \in FreshIds(mints) :
              ensureMint(mints, u, id) = [threw |-> FALSE, mintId |-> m, mints |-> mints]
  /\ \A a \in MintIds : \A b \in MintIds :
       (a # b /\ mints[a].reg /\ mints[b].reg) =>
         Address(mints[a].url) # Address(mints[b].url)

\* C25: a mint is never deleted while proofs reference it: the mint of
\* every proof is registered, no step removes a mint that still owns proofs,
\* and no operation of the registry removes proofs on the side.
C25_MintWithProofsIsKept ==
  /\ [](\A i \in DOMAIN proofs : mints[proofs[i].mintId].reg)
  /\ [][\A m \in MintIds :
          (mints[m].reg /\ ~mints'[m].reg) =>
            \A i \in DOMAIN proofs : proofs[i].mintId # m]_vars
  /\ [][mints' # mints => proofs' = proofs]_vars

\* The two counters of a mint.
Counters(M, m) == <<M[m].successfulOps, M[m].failedOps>>

\* C26: recordSuccess(mint) adds exactly 1 to successfulOps of that mint
\* and recordFailure(mint) exactly 1 to failedOps; each leaves the other
\* counter, every other mint and every other field as they are, and no
\* other operation (createMint of another mint, updateMint, the ledger
\* operations) changes the counters of a mint, which never decrease.
C26_CountersMoveByRecordingOnly ==
  [][mints' # mints =>
       /\ \A m \in MintIds :
            (RecordSuccess(m) /\ mints[m].reg) =>
              mints' = [mints EXCEPT ![m].successfulOps = mints[m].successfulOps + 1]
       /\ \A m \in MintIds :
            (RecordFailure(m) /\ mints[m].reg) =>
              mints' = [mints EXCEPT ![m].failedOps = mints[m].failedOps + 1]
       /\ \A m \in MintIds :
            (mints[m].reg /\ mints'[m].reg) =>
              /\ mints'[m].successfulOps >= mints[m].successfulOps
              /\ mints'[m].failedOps >= mints[m].failedOps
              /\ Counters(mints', m) # Counters(mints, m) =>
                   RecordSuccess(m) \/ RecordFailure(m)]_vars

\* A mint with a proof and a changed trust score has one success and one
\* failure on record.
C26_Witness ==
  \E m \in MintIds :
    /\ mints[m].reg
    /\ Counters(mints, m) = <<1, 1>>
    /\ mints[m].trustScore = 80
    /\ calculateBalance(proofs, m) > 0


\* ------------------------------------------------------- quote life cycle
\* PendingQuote['status'].
QuoteStatuses == {"pending", "paid", "completed", "expired"}

\* The states a mint reports for a mint quote.
MintQuoteStates == {"UNPAID", "PAID", "ISSUED"}

\* The maxAgeMs arguments of expireOldQuotes.
MaxAges == {0, 1}

\* expireOldQuotes: UPDATE pending_quotes SET status = 'expired'
\* WHERE status = 'pending' AND created_at < Date.now() - maxAgeMs.
expireOldQuotes(Q, maxAgeMs, t) ==
  [q \in QuoteIds |->
     IF Q[q].status = "pending" /\ Q[q].createdAt < t - maxAgeMs
     THEN [Q[q] EXCEPT !.status = "expired"]
     ELSE Q[q]]

\* CashuService.createMintQuote once the mint has answered with the quote:
\* createPendingQuote, which throws on a known quote id or an unknown mint.
CreateMintQuote(mintId, quoteId, amountSats) ==
  /\ createPendingQuoteOk(quotes, mints, quoteId, mintId)
  /\ quotes' = createPendingQuote(quotes, quoteId, mintId, "mint", amountSats, now)
  /\ UNCHANGED <<proofs, mints, now, nextLock, openRes, daemonState, ops, gate>>

\* CashuService.checkMintQuote once the mint has answered with the state:
\* updateQuoteStatus(quoteId, 'paid') when it is PAID, whatever the row holds.
CheckMintQuote(mintId, quoteId, state) ==
  /\ mints[mintId].reg
  /\ quotes' = IF state = "PAID" THEN updateQuoteStatus(quotes, quoteId, "paid")
               ELSE quotes
  /\ UNCHANGED <<proofs, mints, now, nextLock, openRes, daemonState, ops, gate>>

\* CashuService.mintTokens once the mint has handed over the proofs:
\* saveProofs, updateQuoteStatus(quoteId, 'completed'), recordSuccess.
MintTokens(mintId, quoteId, newProofs) ==
  /\ Recorded(mints, ops) < MaxRecorded
  /\ saveProofsOk(proofs, mints, mintId, newProofs, now)
  /\ proofs' = saveProofs(proofs, mints, mintId, newProofs, now)
  /\ quotes' = updateQuoteStatus(quotes, quoteId, "completed")
  /\ mints' = recordSuccess(mints, mintId)
  /\ UNCHANGED <<now, nextLock, openRes, daemonState, ops, gate>>

\* updateQuoteStatus(quoteId, status), exported by the storage module.
UpdateQuoteStatus(quoteId, status) ==
  /\ quotes' = updateQuoteStatus(quotes, quoteId, status)
  /\ UNCHANGED <<proofs, mints, now, nextLock, openRes, daemonState, ops, gate>>

\* expireOldQuotes(maxAgeMs), exported by the storage module.
ExpireOldQuotes(maxAgeMs) ==
  /\ quotes' = expireOldQuotes(quotes, maxAgeMs, now)
  /\ UNCHANGED <<proofs, mints, now, nextLock, openRes, daemonState, ops, gate>>

NextQuote ==
  \/ Tick
  \/ \E m \in MintIds : RegisterMint(m)
  \/ \E m \in MintIds : \E q \in QuoteIds : \E a \in DepositAmounts :
       CreateMintQuote(m, q, a)
  \/ \E m \in MintIds : \E q \in QuoteIds : \E s \in MintQuoteStates :
       CheckMintQuote(m, q, s)
  \/ \E m \in MintIds : \E q \in QuoteIds : \E b \in SingleProofs(m) :
       MintTokens(m, q, b)
  \/ \E q \in QuoteIds : \E s \in QuoteStatuses : UpdateQuoteStatus(q, s)
  \/ \E a \in MaxAges : ExpireOldQuotes(a)

SpecQuote == Init /\ [][NextQuote]_vars

\* The steps of the status of a quote: created pending, then paid, then
\* completed; or pending, then expired.
StatusSteps ==
  {<<"none", "pending">>, <<"pending", "paid">>, <<"paid", "completed">>,
   <<"pending", "expired">>}

\* C27: the status of a pending quote only advances along pending, paid,
\* completed or pending, expired: whatever createMintQuote, checkMintQuote,
\* mintTokens, updateQuoteStatus and expireOldQuotes calls are made, a quote
\* never moves backward, never leaves expired or completed, and never
\* reaches completed without having been paid.
C27_QuoteStatusOnlyAdvances ==
  [][\A q \in QuoteIds :
       quotes'[q].status # quotes[q].status =>
         <<quotes[q].status, quotes'[q].status>> \in StatusSteps]_vars

\* The calls that may end the reservation L of the row i: commitSpend(L),
\* rollbackSpend(L) or unlockProofs(L), cleanupStaleLocks, and markProofsSpent
\* of the secret of the row.
EndsReservation(i, L) ==
  \/ CommitSpend(L)
  \/ RollbackSpend(L)
  \/ UnlockProofs(L)
  \/ \E a \in Times : CleanupStaleLocks(a)
  \/ \E S \in SUBSET Secrets : proofs[i].secret \in S /\ MarkProofsSpent(S)

\* C28: a reservation has no timeout of its own: a proof locked under the
\* lock id L keeps exactly L until commitSpend(L), rollbackSpend(L) or
\* unlockProofs(L), cleanupStaleLocks or markProofsSpent acts on it; the
\* clock alone releases nothing and no later lockProofs call, for any mint,
\* puts another lock id in the place of L.
C28_ReservationKeepsItsLock ==
  [][\A i \in DOMAIN proofs :
       proofs[i].lockId # NULL =>
         /\ i \in DOMAIN proofs'
         /\ proofs'[i].lockId \in {proofs[i].lockId, NULL}
         /\ proofs'[i].lockId = NULL => EndsReservation(i, proofs[i].lockId)
         /\ (now' # now \/ nextLock' # nextLock) =>
              proofs'[i].lockId = proofs[i].lockId]_vars

\* The clock has advanced past the creation of a proof that is still locked
\* under the first lock id, after a later lockProofs call locked another
\* proof of another mint under the second.
C28_Witness ==
  \E i, j \in DOMAIN proofs :
    /\ proofs[i].lockId = 1 /\ proofs[i].createdAt < now
    /\ proofs[j].lockId = 2 /\ proofs[j].mintId # proofs[i].mintId
    /\ nextLock = 3

\* ------------------------------------------------------------- executeTool
\* The cases of the switch of executeTool.
ToolNames ==
  {"deposit", "deposit_from_arkade", "pay", "balance", "distribute", "send_ecash",
   "receive_ecash", "list_mints", "add_mint", "arkade_send", "arkade_balance",
   "arkade_address", "lightning_send", "lightning_receive", "lightning_fees",
   "swap_quote", "swap_create", "swap_status", "swap_list", "swap_claim",
   "swap_pairs"}

\* A name the switch has no case for.
UnknownTool == "no_such_tool"

\* executeBalance and executeListMints await nothing.
SyncTools == {"balance", "list_mints"}

\* What the backends answer to a handler that awaits them.
BackendReplies == {"ok", "BackendError"}

\* executeTool(name, params), with what the backends will answer: the mint
\* parameter (mint_id or to_mint, possibly absent), a mint always given
\* (from_mint, the mint of send_ecash, the mint add_mint names), the token
\* and the amount, each varied for the tools that read it.
ToolCalls ==
  { call \in [name : ToolNames \cup {UnknownTool}, mint : MintArgs, other : MintIds,
              token : Tokens, need : Amounts, backend : BackendReplies] :
      /\ call.name \in {"pay", "deposit", "deposit_from_arkade", "receive_ecash",
                        "distribute"}
           \/ call.mint = "none"
      /\ call.name \in {"send_ecash", "distribute", "add_mint"}
           \/ call.other = MintOrder[1]
      /\ call.name = "receive_ecash" \/ call.token = "cashuA"
      /\ call.name \in {"pay", "send_ecash"} \/ call.need = 2
      /\ call.name \notin SyncTools \cup {UnknownTool} \/ call.backend = "ok" }

\* ToolResult: { success: true, data } or { success: false, error }.
ToolSuccess == [success |-> TRUE, error |-> "none"]

ToolFailure(message) == [success |-> FALSE, error |-> message]

NoResult == [success |-> FALSE, error |-> "none"]

\* A handler returns its ToolResult, or throws.
HandlerReturns(result) == [threw |-> FALSE, error |-> "none", result |-> result]

HandlerThrows(message) == [threw |-> TRUE, error |-> message, result |-> NoResult]

\* The handler of a case of the switch, run to its end: the errors the
\* orchestrator throws before its first await, then the errors of
\* reserveProofs (pay, send_ecash), then what the backend answers.
runHandler(call, state, P, M) ==
  LET n == call.name
      toMint == IF call.mint = "none" THEN call.other ELSE call.mint
      early ==
        CASE n = "pay" -> pay(state, P, M, call.mint).res
          [] n = "send_ecash" -> sendEcash(state, M, call.other)
          [] n = "receive_ecash" -> receiveEcash(state, M, call.mint, call.token).res
          [] n = "deposit" -> executeDeposit(state, P, M, call.mint).res
          [] n = "deposit_from_arkade" -> depositFromArkade(state)
          [] n = "distribute" -> distribute(state, P, M, call.other, toMint)
          [] n = "add_mint" ->
               IF ensureMint(M, KnownMint(call.other).url, call.other).threw
               THEN "ConstraintFailed" ELSE "await"
          [] OTHER -> "await"
      reserved ==
        IF n = "pay" THEN reserveProofs(P, pay(state, P, M, call.mint).mintId, call.need).res
        ELSE IF n = "send_ecash" THEN reserveProofs(P, call.other, call.need).res
        ELSE "await"
  IN  IF n \in SyncTools THEN HandlerReturns(ToolSuccess)
      ELSE IF early # "await" THEN HandlerThrows(early)
      ELSE IF reserved # "await" THEN HandlerThrows(reserved)
      ELSE IF call.backend # "ok" THEN HandlerThrows(call.backend)
      ELSE HandlerReturns(ToolSuccess)

\* executeTool resolves with a ToolResult, or rejects.
Resolves(result) == [rejects |-> FALSE, result |-> result]

Rejects == [rejects |-> TRUE, result |-> NoResult]

\* A faulty executeTool without the try and catch around its body.
executeToolNoCatch(call, state, P, M) ==
  LET h == runHandler(call, state, P, M)
  IN  IF ~requireUnlocked(state) THEN Rejects
      ELSE IF call.name \notin ToolNames THEN Resolves(ToolFailure("UnknownTool"))
      ELSE IF h.threw THEN Rejects
      ELSE Resolves(h.result)

\* executeTool: try { requireUnlocked(); switch (name) ... default: return
\* { success: false, error: `Unknown tool` } } catch (error) { return
\* { success: false, error: message } }.
executeTool(call, state, P, M) ==
  LET h == runHandler(call, state, P, M)
  IN  IF ~requireUnlocked(state) THEN Resolves(ToolFailure("NotUnlocked"))
      ELSE IF call.name \notin ToolNames THEN Resolves(ToolFailure("UnknownTool"))
      ELSE IF h.threw THEN Resolves(ToolFailure(h.error))
      ELSE Resolves(h.result)

\* executeTool of a tool that awaits nothing, or of an unknown name: the
\* gate, then a result; nothing is written.
ExecuteSync(name) ==
  /\ Gate
  /\ UNCHANGED <<ledgerVars, daemonState, ops>>

NextExecutor ==
  \/ CliInit
  \/ CliUnlock
  \/ CliLock
  \/ \E m \in MintIds : RegisterMint(m)
  \/ \E m \in MintIds : \E b \in SingleProofs(m) : SaveProofs(m, b)
  \/ \E n \in SyncTools \cup {UnknownTool} : ExecuteSync(n)

SpecExecutor == Init /\ [][NextExecutor]_vars

\* The results of executeTool in the present state.
ResultOf(call) == executeTool(call, daemonState, proofs, mints)

RaisedBy(call) == runHandler(call, daemonState, proofs, mints)

\* C29: executeTool always completes with a ToolResult: every error raised
\* by the state gate, the orchestrator, the ledger or a backend comes back
\* as { success: false, error } with the message of the error and is never
\* thrown to the caller, and an unknown tool name gives a failure result.
C29_ExecuteToolAlwaysAnswers ==
  \A call \in ToolCalls :
    LET r == ResultOf(call)
        h == RaisedBy(call)
    IN  /\ ~r.rejects
        /\ r.result.success = (r.result.error = "none")
        /\ NotUnlocked => r.result = ToolFailure("NotUnlocked")
        /\ call.name = UnknownTool => ~r.result.success
        /\ (~NotUnlocked /\ call.name # UnknownTool /\ h.threw) =>
             r.result = ToolFailure(h.error)

\* The store is unlocked, a call has passed the gate, and in this state a
\* payment fails in the ledger, a deposit fails at its backend, an unknown
\* name is refused and a payment succeeds.
C29_Witness ==
  /\ daemonState = "UNLOCKED"
  /\ gate = "passed"
  /\ \E call \in ToolCalls :
       call.name = "pay" /\ ResultOf(call).result = ToolFailure("InsufficientBalance")
  /\ \E call \in ToolCalls :
       call.name = "deposit" /\ ResultOf(call).result = ToolFailure("BackendError")
  /\ \E call \in ToolCalls :
       call.name = UnknownTool /\ ResultOf(call).result = ToolFailure("UnknownTool")
  /\ \E call \in ToolCalls :
       call.name = "pay" /\ ResultOf(call).result = ToolSuccess

\* A batch of pairwise distinct secrets, none of them in the store.
FreshBatch(P, batch) ==
  /\ \A k, l \in DOMAIN batch : batch[k].secret = batch[l].secret => k = l
  /\ \A k \in DOMAIN batch : batch[k].secret \notin StoredSecrets(P)

\* C30: for every batch of proofs with pairwise distinct secrets none of
\* which is in the store, saveProofs(issuer, batch) for a registered issuer
\* followed by getUnspentProofs(issuer) returns exactly the unspent and
\* unlocked proofs the issuer had before and then the saved ones, each saved
\* proof with a null lock id, a null spent timestamp and the secret and the
\* amount it was handed over with; the proofs of the other issuers are
\* returned as before.
C30_SavedProofsAreReturned ==
  \A m \in MintIds : \A b \in Batches(m) :
    (mints[m].reg /\ FreshBatch(proofs, b)) =>
      LET before == getUnspentProofs(proofs, m)
          after == getUnspentProofs(saveProofs(proofs, mints, m, b, now), m)
      IN  /\ saveProofsOk(proofs, mints, m, b, now)
          /\ Len(after) = Len(before) + Len(b)
          /\ SubSeq(after, 1, Len(before)) = before
          /\ \A k \in DOMAIN b :
               LET row == after[Len(before) + k]
               IN  /\ row.secret = b[k].secret
                   /\ row.amount = b[k].amount
                   /\ row.mintId = m
                   /\ row.lockId = NULL
                   /\ row.spentAt = NULL
          /\ \A x \in MintIds \ {m} :
               getUnspentProofs(saveProofs(proofs, mints, m, b, now), x)
                 = getUnspentProofs(proofs, x)

\* A registered issuer that holds an unlocked proof and a locked one can be
\* handed a fresh proof.
C30_Witness ==
  \E m \in MintIds : \E b \in Batches(m) :
    /\ mints[m].reg /\ FreshBatch(proofs, b)
    /\ getUnspentProofs(proofs, m) # << >>
    /\ \E i \in Indices(proofs) :
         proofs[i].mintId = m /\ proofs[i].lockId # NULL /\ proofs[i].spentAt = NULL

\* ------------------------------------------------- claims on the selection
\* The smallest amount of a non-empty sequence of rows.
MinAmount(rows) ==
  LET i == CHOOSE k \in DOMAIN rows : \A l \in DOMAIN rows : rows[k].amount <= rows[l].amount
  IN  rows[i].amount

\* C31: when selectProofsForAmount(issuer, N) returns a set, the set is a
\* prefix of the unspent, unlocked proofs of the issuer sorted by amount
\* descending (no proof left out is worth more than a proof taken), no set
\* of fewer available proofs sums to at least N, and without its smallest
\* member the set sums to less than N.
C31_SelectionIsMinimalPrefix ==
  \A m \in MintIds, N \in Targets :
    LET sel == selectProofsForAmount(proofs, m, N)
        k == Len(sel.rows)
        taken == { i \in Available(proofs, m) :
                     \E j \in DOMAIN sel.rows : sel.rows[j] = proofs[i] }
    IN  sel.found =>
          /\ sel.rows = SubSeq(SortDesc(getUnspentProofs(proofs, m)), 1, k)
          /\ \A j \in 1..(k - 1) : sel.rows[j].amount >= sel.rows[j + 1].amount
          /\ \A i \in Available(proofs, m) \ taken :
               \A j \in DOMAIN sel.rows : proofs[i].amount <= sel.rows[j].amount
          /\ \A S \in SUBSET Available(proofs, m) :
               AmountAt(proofs, S) >= N => Cardinality(S) >= k
          /\ k > 0 => SumAmount(sel.rows) - MinAmount(sel.rows) < N

\* An issuer whose smallest proof was saved first and is unlocked next to
\* a larger one saved later, one amount being covered by the larger alone,
\* while another proof of the store is locked.
C31_Witness ==
  \E m \in MintIds :
    /\ \E i, j \in Available(proofs, m) : i < j /\ proofs[i].amount < proofs[j].amount
    /\ \E N \in Targets :
         LET sel == selectProofsForAmount(proofs, m, N)
         IN  sel.found /\ Len(sel.rows) = 1 /\ N > 1
    /\ \E i \in Indices(proofs) : proofs[i].lockId # NULL

\* ------------------------------------------- claims on the choice of a mint
\* Orchestrator.pay(invoice) without a mintId, in an unlocked daemon, up to
\* its first await.
PayWithoutMint == pay("UNLOCKED", proofs, mints, "none")

\* C32: Orchestrator.pay called without a mintId pays from the mint that
\* selectMintForPayment of the scoring module returns for the amount of the
\* invoice, the highest-scoring mint whose balance covers the amount, and it
\* fails with no mint when no balance covers the amount.
C32_PayUsesScoring ==
  \A N \in Amounts :
    LET best == scoreSelectMintForPayment(proofs, mints, N)
    IN  IF best = "none"
        THEN PayWithoutMint.res = "NoMintWithBalance"
        ELSE PayWithoutMint.res = "await" /\ PayWithoutMint.mintId = best

\* Orchestrator.selectMintForDeposit(strategy): the targetMintId of a single
\* strategy that names one, otherwise the mint of lowest balance.
selectMintForDepositWith(P, M, strategy) ==
  IF Len(getAllMintsWithBalances(P, M)) = 0 THEN "none"
  ELSE IF strategy.type = "single" /\ strategy.targetMintId # "none"
       THEN strategy.targetMintId
       ELSE selectMintForDeposit(P, M)

\* The first index of the largest weight: [...withWeights].sort((a, b) =>
\* b.weight - a.weight)[0], a stable sort.
highestWeight(mintRows, weights) ==
  CHOOSE i \in DOMAIN mintRows :
    /\ \A j \in DOMAIN mintRows :
         effectiveWeight(weights, mintRows[j].id) <= effectiveWeight(weights, mintRows[i].id)
    /\ \A j \in 1..(i - 1) :
         effectiveWeight(weights, mintRows[j].id) < effectiveWeight(weights, mintRows[i].id)

\* selectMintForDeposit(strategy) of the split module; randomIndex stands
\* for Math.floor(Math.random() * mints.length) + 1.
splitSelectMintForDeposit(P, M, strategy, randomIndex) ==
  LET mintRows == getAllMintsWithBalances(P, M)
  IN  IF Len(mintRows) = 0 THEN "none"
      ELSE CASE strategy.type = "single" ->
                  IF strategy.targetMintId # "none" THEN strategy.targetMintId
                  ELSE mintRows[1].id
             [] strategy.type = "equal" -> selectMintForDeposit(P, M)
             [] strategy.type = "weighted" ->
                  mintRows[highestWeight(mintRows, strategy.weights)].id
             [] strategy.type = "random" -> mintRows[randomIndex].id
             [] OTHER -> mintRows[1].id

\* Orchestrator.deposit(amountSats, undefined, strategy) up to its first
\* await: the mint the quote is requested from, or the error thrown.
depositWith(P, M, strategy) ==
  LET target == selectMintForDepositWith(P, M, strategy)
  IN  IF target = "none" THEN [res |-> "NoMintsAvailable", mintId |-> "none"]
      ELSE IF ~getMint(M, target).reg THEN [res |-> "MintNotFound", mintId |-> "none"]
      ELSE [res |-> "await", mintId |-> target]

\* The mints selectMintForDeposit(strategy) of the split module can return.
HeuristicMints(strategy) ==
  { splitSelectMintForDeposit(proofs, mints, strategy, i) :
      i \in 1..Len(getAllMintsWithBalances(proofs, mints)) }

\* C33: Orchestrator.deposit called without a mintId requests the mint quote
\* from the mint selectMintForDeposit(strategy) gives: the mint of lowest
\* balance for equal, of highest declared weight for weighted, a registered
\* mint for random, and the target named or else the first registered mint
\* for single.
C33_DepositFollowsStrategy ==
  \A s \in SplitStrategies :
    (/\ \E m \in MintIds : mints[m].reg
     /\ s.targetMintId # "none" => mints[s.targetMintId].reg) =>
      /\ depositWith(proofs, mints, s).res = "await"
      /\ depositWith(proofs, mints, s).mintId \in HeuristicMints(s)

\* ------------------------------------------- claims on calls in flight
\* C34: once the daemon state is LOCKED or UNINITIALIZED, no call already in
\* flight starts a further backend call or commits proofs as spent: in every
\* interleaving of lock and reset with a running pay, send, distribute or
\* depositFromArkade, a call moves on to await a backend, and a proof becomes
\* spent, only in a state where the persisted daemon state is UNLOCKED.
C34_NoProgressOnceLocked ==
  [][NotUnlocked =>
       /\ \A o \in OpIds : ops'[o] # ops[o] => ops'[o].pc = "idle"
       /\ \A i \in DOMAIN proofs :
            proofs[i].spentAt = NULL => proofs'[i].spentAt = NULL]_vars

\* --------------------------------------------- StateMachine instances
\* A process that holds a StateMachine (the singleton of getStateMachine):
\* its slot carries this.state.  A slot without an instance is IdleSlot.
Instance(state) == [tool |-> "StateMachine", state |-> state]

HasInstance(O, o) == O[o].tool = "StateMachine"

\* getStateMachine() in a process that has no instance yet: new
\* StateMachine(), which reads the daemon_state row.
GetStateMachine(o) ==
  /\ ~HasInstance(ops, o)
  /\ ops' = [ops EXCEPT ![o] = Instance(StateMachine(daemonState))]
  /\ UNCHANGED <<ledgerVars, daemonState, gate>>

\* A method of the instance of process o has answered r: this.state and the
\* row are what it left them (a throw leaves both).
Answered(o, r) ==
  /\ HasInstance(ops, o)
  /\ ops' = [ops EXCEPT ![o] = Instance(r.state)]
  /\ daemonState' = r.row
  /\ UNCHANGED <<ledgerVars, gate>>

InstanceInit(o) == Answered(o, init(ops[o].state, daemonState))

InstanceUnlock(o) == Answered(o, unlock(ops[o].state, daemonState))

InstanceLock(o) == Answered(o, lock(ops[o].state, daemonState))

InstanceReset(o) == Answered(o, reset(ops[o].state, daemonState))

\* refresh(): this.state = getDaemonState().
InstanceRefresh(o) ==
  /\ HasInstance(ops, o)
  /\ ops' = [ops EXCEPT ![o] = Instance(daemonState)]
  /\ UNCHANGED <<ledgerVars, daemonState, gate>>

\* The process ends; the next process in the slot has no instance.
ProcessExit(o) ==
  /\ HasInstance(ops, o)
  /\ ops' = [ops EXCEPT ![o] = IdleSlot]
  /\ UNCHANGED <<ledgerVars, daemonState, gate>>

NextInstances ==
  \/ Tick
  \/ \E m \in MintIds : RegisterMint(m)
  \/ \E o \in OpIds : GetStateMachine(o)
  \/ \E o \in OpIds : InstanceInit(o)
  \/ \E o \in OpIds : InstanceUnlock(o)
  \/ \E o \in OpIds : InstanceLock(o)
  \/ \E o \in OpIds : InstanceReset(o)
  \/ \E o \in OpIds : InstanceRefresh(o)
  \/ \E o \in OpIds : ProcessExit(o)

SpecInstances == Init /\ [][NextInstances]_vars

\* C35: with more than one StateMachine instance over the same store, a
\* transition behaves according to the persisted state: unlock() on any
\* instance leaves the persisted state UNLOCKED whenever it was LOCKED or
\* UNLOCKED before the call, and init() fails and changes nothing whenever
\* the persisted state is not UNINITIALIZED, also when another instance has
\* changed the persisted state since this instance last read it.
C35_TransitionsFollowPersistedState ==
  \A o \in OpIds :
    HasInstance(ops, o) =>
      /\ daemonState \in {"LOCKED", "UNLOCKED"} =>
           unlock(ops[o].state, daemonState).row = "UNLOCKED"
      /\ daemonState # "UNINITIALIZED" =>
           init(ops[o].state, daemonState) =
             Threw(AlreadyInitialized, ops[o].state, daemonState)

\* ------------------------------------------------------ the daemon process
\* The slot of the daemon process: Daemon.running, whether
\* Orchestrator.initialize(mnemonic) has completed in the process, and
\* whether start is awaiting it.
DaemonSlot == OpOrder[1]

DaemonProcess(running, initialized, pc) ==
  [tool |-> "Daemon", running |-> running, initialized |-> initialized, pc |-> pc]

IsDaemon(O) == O[DaemonSlot].tool = "Daemon"

\* What start is called with: no password, a wrong one, the right one.
Passwords == {"none", "wrong", "right"}

\* Daemon.start(password) in a fresh process, up to its first await:
\* UNINITIALIZED returns at once; LOCKED with a password calls unlockSeed
\* (which throws on a wrong password, else StateMachine.unlock) and awaits
\* Orchestrator.initialize; every other case goes on to start the servers.
DaemonStartCall(password) ==
  /\ ~IsDaemon(ops)
  /\ ops[DaemonSlot] = IdleSlot
  /\ IF daemonState = "UNINITIALIZED"
     THEN UNCHANGED <<ops, daemonState>>
     ELSE IF daemonState = "LOCKED" /\ password # "none"
     THEN IF password = "wrong"
          THEN UNCHANGED <<ops, daemonState>>
          ELSE /\ daemonState' = unlock(StateMachine(daemonState), daemonState).row
               /\ ops' = [ops EXCEPT ![DaemonSlot] = DaemonProcess(FALSE, FALSE, "initialize")]
     ELSE /\ ops' = [ops EXCEPT ![DaemonSlot] = DaemonProcess(TRUE, FALSE, "running")]
          /\ UNCHANGED daemonState
  /\ UNCHANGED <<ledgerVars, gate>>

\* Orchestrator.initialize(mnemonic) returns: the servers start.
DaemonInitializeReturns ==
  /\ IsDaemon(ops)
  /\ ops[DaemonSlot].pc = "initialize"
  /\ ops' = [ops EXCEPT ![DaemonSlot] = DaemonProcess(TRUE, TRUE, "running")]
  /\ UNCHANGED <<ledgerVars, daemonState, gate>>

\* Orchestrator.initialize throws (arkade.initialize fails): start rejects
\* and the process ends.
DaemonInitializeFails ==
  /\ IsDaemon(ops)
  /\ ops[DaemonSlot].pc = "initialize"
  /\ ops' = [ops EXCEPT ![DaemonSlot] = IdleSlot]
  /\ UNCHANGED <<ledgerVars, daemonState, gate>>

\* Daemon.stop: process.exit(0).
DaemonStop ==
  /\ IsDaemon(ops)
  /\ ops[DaemonSlot].running
  /\ ops' = [ops EXCEPT ![DaemonSlot] = IdleSlot]
  /\ UNCHANGED <<ledgerVars, daemonState, gate>>

\* The running daemon receives a tool call: executeTool, requireUnlocked.
DaemonExecuteTool ==
  /\ IsDaemon(ops)
  /\ ops[DaemonSlot].running
  /\ Gate
  /\ UNCHANGED <<ledgerVars, daemonState, ops>>

NextDaemon ==
  \/ Tick
  \/ CliInit
  \/ CliUnlock
  \/ CliLock
  \/ ResetSeed
  \/ \E p \in Passwords : DaemonStartCall(p)
  \/ DaemonInitializeReturns
  \/ DaemonInitializeFails
  \/ DaemonStop
  \/ DaemonExecuteTool

SpecDaemon == Init /\ [][NextDaemon]_vars

\* C36: in every state in which a running daemon accepts fund-touching tool
\* calls (the persisted state is UNLOCKED, so executeTool passes
\* requireUnlocked), Orchestrator.initialize(mnemonic) has completed in
\* that process, whatever the start sequence was.
C36_AcceptingDaemonIsInitialized ==
  (/\ IsDaemon(ops)
   /\ ops[DaemonSlot].running
   /\ requireUnlocked(daemonState)) => ops[DaemonSlot].initialized

\* ------------------------------------------- success of a funded deposit
\* The quote of the running call has been minted: mintTokens saved the new
\* proofs under the target and marked the quote completed.
Credited(o) ==
  /\ quotes[ops[o].quoteId].status = "completed"
  /\ calculateBalance(proofs, ops[o].target) >= ops[o].amountSats

\* C37: distribute and depositFromArkade report success only when the
\* target issuer has been credited: when the answer of checkMintQuote makes
\* the call return its success result, proofs worth amountSats were minted
\* and saved for the target (also when the quote is not reported paid
\* within the polling attempts).
C37_SuccessMeansCredited ==
  \A o \in OpIds :
    (/\ ops[o].tool \in {"deposit_from_arkade", "distribute"}
     /\ ops[o].pc = "mCheck")
    => \A paid \in BOOLEAN :
         pollQuote(ops[o].attempts, paid) = "success" => Credited(o)

\* ------------------------------------------------ the balance after a pay
\* The rows reserved under a lock id.
ReservedRows(P, lockId) == SelectSeq(P, LAMBDA r : r.lockId = lockId)

\* The rows of a set of secrets.
RowsOf(P, secrets) == SelectSeq(P, LAMBDA r : r.secret \in secrets)

\* payInvoice reserves proofs worth at least totalNeeded.
ReservationCovers ==
  \A m \in MintIds : \A totalNeeded \in Amounts :
    LET r == reserveProofs(proofs, m, totalNeeded)
    IN  r.res = "await" =>
          /\ SumAmount(RowsOf(proofs, r.secrets)) >= totalNeeded
          /\ \A i \in DOMAIN proofs :
               proofs[i].secret \in r.secrets =>
                 /\ proofs[i].mintId = m
                 /\ proofs[i].spentAt = NULL
                 /\ proofs[i].lockId = NULL

\* payInvoice returns successfully: the try block ran to its end.
PaySettles(o, change) ==
  /\ PayMeltReturns(o, change)
  /\ settle(proofs, mints, ops[o].mintId, change, now) = "ok"

BalanceAfterPay ==
  \A o \in OpIds : \A change \in Changes(ops[o].mintId) :
    PaySettles(o, change) =>
      LET m == ops[o].mintId
          selected == ReservedRows(proofs, ops[o].lockId)
      IN  /\ SecretsOf(selected) = ops[o].sel
          /\ calculateBalance(proofs', m) =
               calculateBalance(proofs, m) - SumAmount(selected) + SumAmount(change)
          /\ calculateBalance(proofs', m) >= 0
          /\ \A n \in MintIds \ {m} :
               calculateBalance(proofs', n) = calculateBalance(proofs, n)

\* The daemon serving receive_ecash and pay, one call at a time.
NextSerialPay ==
  \/ CliInit
  \/ CliUnlock
  \/ \E o \in Serial : Receive(o) \/ Pay(o)

SpecSerialPay == Init /\ [][NextSerialPay]_vars

\* C38: after a payInvoice that returns successfully, served one call at a
\* time, the balance of the mint is its balance before minus the total of
\* the proofs selected for the melt plus the total of the change proofs the
\* mint returned; the selected total is at least amount + fee_reserve; the
\* balance is never negative.
C38_PayMovesBalanceByMeltAndChange ==
  /\ []ReservationCovers
  /\ [][BalanceAfterPay]_vars
  /\ [](\A m \in MintIds : calculateBalance(proofs, m) >= 0)

\* A pay has returned successfully with change: the selected proof is spent
\* and a change proof stored later is unspent under the same mint.
C38_Witness ==
  \E i, j \in DOMAIN proofs :
    /\ i < j
    /\ proofs[i].mintId = proofs[j].mintId
    /\ proofs[i].spentAt # NULL
    /\ proofs[j].spentAt = NULL
    /\ mints[proofs[i].mintId].successfulOps > 0
    /\ \A o \in OpIds : ops[o].pc = "idle"

\* ------------------------------------------------------------ federations
\* Largest balance of a federation instance, and the fixed amount
\* FedimintService.payInvoice pays (const amountSats = 1000), scaled.
MaxNotes == 3

PlaceholderSats == 2

NoteAmounts == 1..2

\* A row of type FEDIMINT: ensureFederation inserts it with url null.
Federation(mintId) == [id |-> mintId, url |-> NoUrl, trustScore |-> 50]

IsFederation(M, mintId) == M[mintId].reg /\ M[mintId].url = NoUrl

IsCashu(M, mintId) == M[mintId].reg /\ M[mintId].url # NoUrl

\* federationInstances, the in-memory map of the FedimintService: the slot
\* of a mint id holds its instance once initializeFederation has run.
FedSlot(mintId) == IF mintId = MintOrder[1] THEN OpOrder[1] ELSE OpOrder[2]

FedimintInstance(balance) == [tool |-> "FedimintInstance", balance |-> balance]

\* initializeFederation: the existing instance, or a new one with balance 0.
initializeFederation(O, mintId) ==
  IF O[FedSlot(mintId)] = IdleSlot THEN FedimintInstance(0) ELSE O[FedSlot(mintId)]

\* FedimintService.getBalance: instance?.balance ?? 0.
fedimintGetBalance(O, mintId) ==
  IF O[FedSlot(mintId)] = IdleSlot THEN 0 ELSE O[FedSlot(mintId)].balance

\* ensureFederation for an invite code not yet registered: createMint.
EnsureFederation(mintId) ==
  /\ ~mints[mintId].reg
  /\ mints' = createMint(mints, Federation(mintId))
  /\ UNCHANGED <<proofs, now, nextLock, openRes, quotes, daemonState, ops, gate>>

\* Orchestrator.receiveEcash on a federation: receiveNotes adds the amount
\* decoded from the notes to the instance balance.
ReceiveNotes(mintId, amount) ==
  /\ IsFederation(mints, mintId)
  /\ LET instance == initializeFederation(ops, mintId)
     IN  /\ instance.balance + amount <= MaxNotes
         /\ ops' = [ops EXCEPT ![FedSlot(mintId)] =
                      FedimintInstance(instance.balance + amount)]
  /\ UNCHANGED <<ledgerVars, daemonState, gate>>

\* Orchestrator.sendEcash on a federation: sendNotes throws below the
\* amount, else takes it from the instance balance.
SendNotes(mintId, amount) ==
  /\ IsFederation(mints, mintId)
  /\ LET instance == initializeFederation(ops, mintId)
     IN  ops' = [ops EXCEPT ![FedSlot(mintId)] =
                   IF instance.balance < amount THEN instance
                   ELSE FedimintInstance(instance.balance - amount)]
  /\ UNCHANGED <<ledgerVars, daemonState, gate>>

\* Orchestrator.pay on a federation: FedimintService.payInvoice throws
\* below its fixed amount, else takes it from the instance balance and
\* calls recordSuccess.
FedimintPayInvoice(mintId) ==
  /\ IsFederation(mints, mintId)
  /\ LET instance == initializeFederation(ops, mintId)
     IN  IF instance.balance < PlaceholderSats
         THEN /\ ops' = [ops EXCEPT ![FedSlot(mintId)] = instance]
              /\ UNCHANGED mints
         ELSE /\ mints[mintId].successfulOps < MaxRecorded
              /\ ops' = [ops EXCEPT ![FedSlot(mintId)] =
                           FedimintInstance(instance.balance - PlaceholderSats)]
              /\ mints' = recordSuccess(mints, mintId)
  /\ UNCHANGED <<proofs, now, nextLock, openRes, quotes, daemonState, gate>>

\* The ledger of the Cashu mints: proofs received, reserved and spent.
CashuLedger ==
  \/ \E m \in MintIds : IsCashu(mints, m) /\ \E b \in SingleProofs(m) : SaveProofs(m, b)
  \/ \E m \in MintIds : IsCashu(mints, m) /\ \E s \in Secrets : LockProofs(m, {s})
  \/ \E L \in LockIds : CommitSpend(L)

NextFederation ==
  \/ \E m \in MintIds : RegisterMint(m)
  \/ \E m \in MintIds : EnsureFederation(m)
  \/ \E m \in MintIds : \E n \in NoteAmounts : ReceiveNotes(m, n)
  \/ \E m \in MintIds : \E n \in NoteAmounts : SendNotes(m, n)
  \/ \E m \in MintIds : FedimintPayInvoice(m)
  \/ CashuLedger

SpecFederation == Init /\ [][NextFederation]_vars

\* The balance getBalance().byMint and listMints report for a mint: the
\* balance column of getAllMintsWithBalances.
ReportedBalance(mintId) ==
  LET rows == getAllMintsWithBalances(proofs, mints)
  IN  rows[CHOOSE i \in DOMAIN rows : rows[i].id = mintId].balance

\* The balance the pay and send paths of a mint compare the amount against:
\* CashuService.getBalance or the balance of the federation instance.
ComparedBalance(mintId) ==
  IF IsFederation(mints, mintId)
  THEN fedimintGetBalance(ops, mintId)
  ELSE calculateBalance(proofs, mintId)

\* C39: for every registered issuer of either kind, the balance reported by
\* getBalance().byMint and listMints equals the balance its pay and send
\* paths compare the requested amount against.
C39_ReportedBalanceIsSpendable ==
  \A m \in MintIds :
    mints[m].reg => ReportedBalance(m) = ComparedBalance(m)

\* ------------------------------------------------- frame of a reservation
\* The rows of P that Q leaves as they are, row for row.
SameOutside(P, Q, touched) ==
  /\ DOMAIN Q = DOMAIN P
  /\ \A i \in DOMAIN P : i \notin touched => Q[i] = P[i]

Named(P, secrets) == { i \in DOMAIN P : P[i].secret \in secrets }

\* C40: commitSpend(L), rollbackSpend(L) and unlockProofs(L) leave every
\* proof that does not carry L unchanged, and a lockProofs(issuer, secrets)
\* that returns leaves every proof not named in secrets unchanged; none of
\* them adds or removes a row.
C40_ReservationCallsTouchOnlyTheirProofs ==
  /\ \A L \in LockIds :
       /\ SameOutside(proofs, commitSpend(proofs, L, now), Carrying(proofs, L))
       /\ SameOutside(proofs, rollbackSpend(proofs, L), Carrying(proofs, L))
       /\ SameOutside(proofs, unlockProofs(proofs, L), Carrying(proofs, L))
  /\ \A m \in MintIds : \A S \in SUBSET Secrets :
       lockProofsReturns(proofs, S) =>
         SameOutside(proofs, lockUpdate(proofs, nextLock, m, S), Named(proofs, S))

\* Two reservations are open next to a free proof, and a lockProofs naming
\* one secret of a mint that holds two unspent proofs can return.
C40_Witness ==
  /\ \E i, j, k \in DOMAIN proofs :
       /\ proofs[i].lockId # NULL
       /\ proofs[j].lockId # NULL
       /\ proofs[i].lockId # proofs[j].lockId
       /\ proofs[k].lockId = NULL
  /\ \E i, k \in DOMAIN proofs :
       /\ i # k
       /\ proofs[i].mintId = proofs[k].mintId
       /\ proofs[i].spentAt = NULL /\ proofs[k].spentAt = NULL
       /\ proofs[i].lockId = NULL
       /\ lockProofsReturns(proofs, {proofs[i].secret})
       /\ lockUpdate(proofs, nextLock, proofs[i].mintId, {proofs[i].secret}) # proofs

====
